---- MODULE Spec2Model ----
(***************************************************************************)
(* A model of WoonnetBot (src/bot.py): the bot's session flags, the        *)
(* countdown resolver, the scheduled waiter and the concurrent submitter   *)
(* of apply_to_listings, and discover_all_listings_with_categories with    *)
(* its detail fetches, classification and sort.                            *)
(*                                                                         *)
(* A definition whose name extends the name of the definition that follows *)
(* it (NotAuthenticated_skipped before NotAuthenticated) is a faulty       *)
(* variant of that code, kept to show that the properties below tell the   *)
(* two apart.                                                              *)
(*                                                                         *)
(* Durations are kept in milliseconds: the value the code holds in seconds *)
(* (remaining_ms / 1000.0) is represented by the same quantity times 1000, *)
(* so that no fraction is lost.                                            *)
(***************************************************************************)
EXTENDS Integers, Sequences, FiniteSets, TLC

VARIABLES
    \* ---- WoonnetBot fields (bot.py 33-40)
    service,            \* ChromeService was initialised (FALSE: self.service = None)
    driver,             \* a browser is running (self.driver is not None)
    is_logged_in,
    stop_event,
    session_cookies,    \* self.session.cookies: cookie name -> value
    session_headers,    \* the default headers of self.session that login has set
    browsers,           \* Chrome instances started by this bot and not yet quit
    start_warned,       \* "Browser is already running." was logged (history)
    \* ---- one login call
    login_run,          \* what the browser did in this call (history)
    login_ret,          \* what the call returned
    \* ---- callers that run on their own thread
    login_pc,           \* "idle" | "browser": a login call is driving the browser
    quit_pc,            \* "idle" | "stopped": quit() has set the stop event
    since_quit,         \* a quit has completed and login was not called since
                        \* (history)
    \* ---- clocks
    mono,               \* time.monotonic(), in ms
    hour,               \* datetime.now().hour
    \* ---- one apply_to_listings call
    apply_pc,           \* position of the calling thread
    listing_ids,        \* the argument
    auth_at_call,       \* is_logged_in at the moment of the call (history)
    stop_at_call,       \* the call began after a quit had completed (history)
    timer_resp,         \* what the timer endpoint answered (history)
    remaining_seconds,  \* result of _get_server_countdown_seconds
    end_time,
    wait_start,         \* time.monotonic() when the countdown was resolved (history)
    wait_mode,          \* "none" | "countdown" | "wall": loop the waiter entered
    slept,              \* the waiter executed time.sleep(1) at least once
    stop_in_wait,       \* stop_event was set while the waiter was in its loop
    task_pc,            \* per submitted task: "queued" | "get" | "post" | "done"
    task_raised,        \* per task: the future holds an exception
    page_res,           \* per task: the application page that was fetched
    submit_res,         \* per task: the POST response
    task_result,        \* per task: return value of _apply_task
    outcome_msg,        \* per task: outcome messages put on the status queue
    n_get,              \* per task: application-page GETs issued
    n_post,             \* per task: POSTs issued
    apply_reports,      \* report threads started by the tasks of this call
                        \* (line 84) that have not ended
    timer_gets,         \* timer GETs issued by this call
    collected,          \* futures already consumed by the as_completed loop
    success_count,
    finished_msg,       \* the count logged by the "Finished." message
    ret,                \* what the call returned
    \* ---- one discover_all_listings_with_categories call
    disc_pc,            \* position of the calling thread
    search_resp,        \* what the search endpoint answered (history)
    id_map,             \* the dict of line 372, as the sequence of its items
    detail_pc,          \* position of each detail task, one per key of id_map
    detail_map,         \* listing id -> detail (or None), line 381
    detail_posts,       \* listing id -> detail requests issued for it
    detail_out,         \* listing id -> how its fetch ended, and is_logged_in
                        \* when get_listing_details ran (history)
    detail_order,       \* listing ids in the order as_completed yielded them
    disc_now,           \* datetime.now() of line 392, as hours since midnight
    disc_errors,        \* calls of _report_error made by this call
    disc_ret,           \* the returned mapping, once returned
    prev_run,           \* the inputs and the result of the call before (history)
    \* ---- one _parse_price call
    price_in,           \* the argument: a text, or None
    price_res,          \* the result, once the call is over
    \* ---- the window (hybrid_bot.py, class App)
    login_button,       \* the Login button is NORMAL
    discover_button,    \* the Discover button is NORMAL
    apply_button,       \* the Apply button is NORMAL
    login_worker,       \* the thread of run_login_wrapper: "none", "started"
                        \* (login not yet entered) or "called"
    disc_workers,       \* threads of run_discovery_wrapper that are alive
    disc_calling,       \* one of them has entered the discovery call
    apply_workers,      \* threads of run_apply_wrapper that are alive
    apply_calling,      \* one of them has entered apply_to_listings
    apply_args,         \* the ids given to the apply threads that have not
                        \* entered the call yet, oldest first
    after_queue,        \* callbacks posted with self.after, oldest first
    discovery_due,      \* the callback of after(100, start_discovery) is pending
    status_msgs,        \* the '__categories__' messages on the status queue
    listing_widgets,    \* the listings of the widgets on display
    selected,           \* ids of the widgets whose check box is set
    show_uitgesloten    \* the filter 'Uitgesloten' is set

botVars   == <<service, driver, is_logged_in, stop_event, session_cookies,
               session_headers, browsers, start_warned, login_run, login_ret,
               login_pc, quit_pc, since_quit>>
clockVars == <<mono, hour>>
taskVars  == <<task_pc, task_raised, page_res, submit_res, task_result,
               outcome_msg, n_get, n_post, apply_reports>>
applyVars == <<apply_pc, listing_ids, auth_at_call, stop_at_call, timer_resp,
               remaining_seconds, end_time, wait_start, wait_mode, slept, stop_in_wait, timer_gets, collected,
               success_count, finished_msg, ret>>
discVars  == <<disc_pc, search_resp, id_map, detail_pc, detail_map, detail_posts, detail_out,
               detail_order, disc_now, disc_errors, disc_ret, prev_run>>
priceVars == <<price_in, price_res>>
buttonVars == <<login_button, discover_button, apply_button>>
workerVars == <<login_worker, disc_workers, disc_calling, apply_workers, apply_calling,
                apply_args>>
uiVars    == <<buttonVars, workerVars, after_queue, discovery_due, status_msgs,
               listing_widgets, selected, show_uitgesloten>>
vars      == <<botVars, clockVars, taskVars, applyVars, discVars, priceVars, uiVars>>

----------------------------------------------------------------------------
(* Program constants *)

APPLICATION_HOUR == 20
max_workers == 10

(* Bounds of the model *)

MaxMono == 1500         \* the monotonic clock stops advancing here
MonoStep == 500         \* granularity of the monotonic clock
MaxHour == 21           \* the wall clock stops advancing here

StartHours == {APPLICATION_HOUR - 1, APPLICATION_HOUR}

ListingIds == {"a", "b"}
Batches == {<<>>, <<"a">>, <<"a", "b">>}

----------------------------------------------------------------------------
(* Optional values *)

None == [is_none |-> TRUE, v |-> 0]
Some(x) == [is_none |-> FALSE, v |-> x]

----------------------------------------------------------------------------
(* Messages of the external endpoints *)

\* Answers of the timer endpoint (GET API_TIMER_URL).  "ok" carries the value of
\* the 'resterendetijd' field in ms; "infinite" is a body whose field is the
\* JSON number Infinity (or 1e999), which Python reads as float('inf').
TimerMs == {0 - 500, 0, 500, 1000}
TimerFailKinds == {"transport_error", "http_error", "bad_json",
                   "missing_field", "non_numeric"}
TimerResponses ==
    {[kind |-> k, ms |-> 0] : k \in TimerFailKinds \cup {"infinite"}}
    \cup {[kind |-> "ok", ms |-> m] : m \in TimerMs}
NoTimerResp == [kind |-> "none", ms |-> 0]

\* An application page: its HTTP status, whether it holds the button
\* name=Command value=plaats-einkomen, whether that button sits in a <form>,
\* and the names of the named <input> tags of that form.
TokenField == "__RequestVerificationToken"
InputNames == {TokenField}
HttpStatuses == {200, 500}
Pages ==
    {p \in [status : HttpStatuses, button : BOOLEAN, form : BOOLEAN,
            inputs : SUBSET InputNames] :
        /\ p.form => p.button
        /\ ~p.form => p.inputs = {}}
NoPage == [status |-> 0, button |-> FALSE, form |-> FALSE, inputs |-> {}]

\* A POST response: its HTTP status and the confirmation phrases its body holds.
Processed == "Wij hebben uw reactie verwerkt"
AlreadyApplied == "U heeft al gereageerd"
SubmitResponses ==
    [status : HttpStatuses, text : {{}, {Processed}, {AlreadyApplied}}]
NoSubmit == [status |-> 0, text |-> {}]

----------------------------------------------------------------------------
(* WoonnetBot._get_server_countdown_seconds (bot.py 152-172) *)

\* Faulty variant: the KeyError of a missing field escapes.
get_server_countdown_seconds_uncaught(resp) ==
    CASE resp.kind \in TimerFailKinds \ {"missing_field"} ->
            [raised |-> FALSE, val |-> None]
      [] resp.kind \in {"infinite", "missing_field"} ->
            [raised |-> TRUE, val |-> None]
      [] OTHER ->
            IF resp.ms <= 0
            THEN [raised |-> FALSE, val |-> Some(0)]
            ELSE [raised |-> FALSE, val |-> Some(resp.ms)]

\* requests.RequestException covers the transport error, the error status
\* (raise_for_status) and the undecodable body; KeyError, ValueError and
\* TypeError cover the missing field and the non-numeric value.  int() of an
\* infinite float raises OverflowError, which no handler catches.
get_server_countdown_seconds(resp) ==
    CASE resp.kind \in TimerFailKinds -> [raised |-> FALSE, val |-> None]
      [] resp.kind = "infinite" -> [raised |-> TRUE, val |-> None]
      [] OTHER ->
            IF resp.ms <= 0
            THEN [raised |-> FALSE, val |-> Some(0)]
            ELSE [raised |-> FALSE, val |-> Some(resp.ms)]   \* remaining_ms / 1000.0 s

----------------------------------------------------------------------------
(* The conditions of apply_to_listings (bot.py 174-200) *)

\* Faulty variant: the guard is missing.
NotAuthenticated_skipped == FALSE
\* line 176; a requests.Session object is always truthy
NotAuthenticated == ~is_logged_in

\* line 184
CountdownKnown(r) == ~r.is_none /\ r.v > 0

\* Faulty variant: the countdown loop is never entered.
CountdownWaiting_nowait == FALSE
\* Faulty variant: the deadline is not tested, only the stop signal ends the loop.
CountdownWaiting_forever == ~stop_event
\* line 186
CountdownWaiting == ~stop_event /\ mono < end_time

\* line 194
WindowOpen == hour >= APPLICATION_HOUR

\* Faulty variant: the stop signal is not tested after the loop.
AbortOnStop_never == FALSE
\* Faulty variant: only a stop that arrived during the wait of this call aborts.
AbortOnStop_during_wait == stop_in_wait
\* line 198
AbortOnStop == stop_event

----------------------------------------------------------------------------
(* _apply_task (bot.py 204-238) *)

\* lines 213-214
form_found(p) == p.button /\ p.form

\* lines 218-219: the keys of the payload
build_payload(p) == p.inputs \cup {"Command"}

\* Faulty variant: the token is not required.
token_present_always(payload) == TRUE
\* line 221
token_present(payload) == TokenField \in payload

\* Faulty variant: HTTP 200 counts as success.
is_success_by_status(res) == res.status = 200
\* line 229
is_success(res) == Processed \in res.text \/ AlreadyApplied \in res.text

\* Faulty variant: no except clause, the exception stays in the future.
on_task_exception_propagates ==
    [result |-> FALSE, raised |-> TRUE, msg |-> 0, threads |-> 0]
\* Faulty variant: the exception is swallowed without a message.
on_task_exception_silent ==
    [result |-> FALSE, raised |-> FALSE, msg |-> 0, threads |-> 0]
\* lines 235-238: _report_error puts one ERROR message on the queue (line 82)
\* and starts one daemon thread that sends the report (line 84), the task
\* returns False
on_task_exception == [result |-> FALSE, raised |-> FALSE, msg |-> 1, threads |-> 1]

\* Faulty variant: every finished task is counted.
count_result_always(count, res) == count + 1
\* lines 244-245
count_result(count, res) == IF res THEN count + 1 ELSE count

----------------------------------------------------------------------------
(* Initial state: a constructed WoonnetBot (bot.py 33-57), no call made yet *)

NoReturn == [returned |-> FALSE, value |-> None]
Returned(x) == [returned |-> TRUE, value |-> x]

\* lines 353, 366, 369, 394
EmptyCategories == [voorrang |-> <<>>, geenvoorrang |-> <<>>, uitgesloten |-> <<>>]
NoDiscReturn == [returned |-> FALSE, value |-> EmptyCategories]
NoSearchResp == [kind |-> "none", results |-> <<>>]
NoRun == [known |-> FALSE, search |-> NoSearchResp, details |-> <<>>, now |-> 0,
          order |-> <<>>, value |-> EmptyCategories]

\* The browser of one login call: the step that raises (a time-out of a wait, a
\* WebDriverException, self.driver set to None by quit) or "none", and the cookies
\* the browser holds once the logout link is there.  "cookies": get_cookies or
\* the copying loop raises; jar is then what was copied before.
BrowserSteps == {"load", "username", "password", "click", "marker"}
CookieNames == {"sid", "lang"}
CookieValues == {"v1", "v2"}
Jars == UNION {[ns -> CookieValues] : ns \in SUBSET CookieNames}
LoginRuns ==
    {[fails_at |-> f, jar |-> <<>>] : f \in BrowserSteps}
    \cup {[fails_at |-> f, jar |-> j] : f \in {"cookies", "none"}, j \in Jars}
NoLoginRun == [fails_at |-> "not_run", jar |-> <<>>]
\* lines 138-143
LoginHeaders == {"User-Agent", "Accept", "X-Requested-With", "Referer"}
\* (True, self.session) or (False, None)
NoLoginRet == [returned |-> FALSE, ok |-> FALSE, session |-> FALSE]
LoginReturn(ok) == [returned |-> TRUE, ok |-> ok, session |-> ok]

\* _parse_price has not been called
NoPriceRes == [called |-> FALSE, raised |-> FALSE, num |-> 0, den |-> 1]

ApplyIdle ==
    /\ listing_ids = <<>>
    /\ auth_at_call = FALSE
    /\ stop_at_call = FALSE
    /\ wait_start = 0
    /\ timer_resp = NoTimerResp
    /\ remaining_seconds = None
    /\ end_time = 0
    /\ wait_mode = "none"
    /\ slept = FALSE
    /\ stop_in_wait = FALSE
    /\ timer_gets = 0
    /\ collected = {}
    /\ success_count = 0
    /\ finished_msg = None
    /\ ret = NoReturn
    /\ task_pc = <<>>
    /\ task_raised = <<>>
    /\ page_res = <<>>
    /\ submit_res = <<>>
    /\ task_result = <<>>
    /\ outcome_msg = <<>>
    /\ n_get = <<>>
    /\ n_post = <<>>
    /\ apply_reports = 0

\* the state every specification starts from
InitProgram ==
    /\ service \in BOOLEAN      \* ChromeService(...) may fail: self.service = None
    /\ driver = FALSE
    /\ is_logged_in = FALSE
    /\ stop_event = FALSE
    /\ session_cookies = <<>>   \* requests.Session(), line 39
    /\ session_headers = {}
    /\ browsers = 0
    /\ start_warned = FALSE
    /\ login_run = NoLoginRun
    /\ login_ret = NoLoginRet
    /\ login_pc = "idle"
    /\ quit_pc = "idle"
    /\ since_quit = FALSE
    /\ mono = 0
    /\ hour \in StartHours
    /\ apply_pc = "idle"
    /\ ApplyIdle
    /\ disc_pc = "idle"
    /\ search_resp = NoSearchResp
    /\ id_map = <<>>
    /\ detail_pc = <<>>
    /\ detail_map = <<>>
    /\ detail_posts = <<>>
    /\ detail_out = <<>>
    /\ detail_order = <<>>
    /\ disc_now = 0
    /\ disc_errors = 0
    /\ disc_ret = NoDiscReturn
    /\ prev_run = NoRun
    /\ price_res = NoPriceRes
    \* App.__init__ (hybrid_bot.py 110-133): set_controls_state('initial')
    /\ login_button = TRUE
    /\ discover_button = FALSE
    /\ apply_button = FALSE
    /\ login_worker = "none"
    /\ disc_workers = 0
    /\ disc_calling = FALSE
    /\ apply_workers = 0
    /\ apply_calling = FALSE
    /\ apply_args = <<>>
    /\ after_queue = <<>>
    /\ discovery_due = FALSE
    /\ status_msgs = <<>>
    /\ listing_widgets = <<>>
    /\ selected = {}
    /\ show_uitgesloten = FALSE      \* hybrid_bot.py line 168

Init ==
    /\ InitProgram
    /\ price_in = None

----------------------------------------------------------------------------
(* The clocks *)

Tick ==
    /\ mono + MonoStep <= MaxMono
    /\ mono' = mono + MonoStep
    /\ UNCHANGED <<priceVars, uiVars, hour, botVars, taskVars, applyVars, discVars>>

HourTick ==
    /\ hour < MaxHour
    /\ hour' = hour + 1
    /\ UNCHANGED <<priceVars, uiVars, mono, botVars, taskVars, applyVars, discVars>>

----------------------------------------------------------------------------
(* start_headless_browser (bot.py 86-114) *)

\* Faulty variant: the test of line 88 is missing.
already_running_unchecked == FALSE
\* line 88
already_running == driver

\* keep_log: whether the warning of line 89 is kept in start_warned
StartBrowser(keep_log) ==
    /\ \E started \in BOOLEAN :
        IF already_running                     \* lines 88-90: warning, return
        THEN /\ start_warned' = (start_warned \/ keep_log)
             /\ UNCHANGED <<driver, browsers>>
        ELSE IF ~service                       \* lines 91-93
        THEN UNCHANGED <<driver, browsers, start_warned>>
        ELSE IF started                        \* line 105: webdriver.Chrome(...)
        THEN /\ driver' = TRUE
             /\ browsers' = browsers + 1
             /\ UNCHANGED start_warned
        ELSE /\ driver' = FALSE                \* lines 111-114
             /\ UNCHANGED <<browsers, start_warned>>
    /\ UNCHANGED <<priceVars, uiVars, service, is_logged_in, stop_event, session_cookies,
                   session_headers, login_run, login_ret, login_pc, quit_pc,
                   since_quit, clockVars, taskVars, applyVars, discVars>>

(* login (bot.py 116-149) *)

\* Faulty variant: a cookie the session already holds is not overwritten.
copy_cookies_keeps_old(jar, browser_jar) ==
    [n \in DOMAIN jar \cup DOMAIN browser_jar |->
        IF n \in DOMAIN jar THEN jar[n] ELSE browser_jar[n]]
\* lines 135-136: session.cookies.set for every cookie of the browser
copy_cookies(jar, browser_jar) ==
    [n \in DOMAIN jar \cup DOMAIN browser_jar |->
        IF n \in DOMAIN browser_jar THEN browser_jar[n] ELSE jar[n]]

\* lines 118-121: without a browser the call returns at once
CallLogin ==
    /\ login_pc = "idle"
    /\ IF ~driver
       THEN /\ login_run' = [NoLoginRun EXCEPT !.fails_at = "no_browser"]
            /\ login_ret' = LoginReturn(FALSE)
            /\ login_pc' = "idle"
       ELSE /\ login_run' = NoLoginRun
            /\ login_ret' = NoLoginRet
            /\ login_pc' = "browser"
    /\ since_quit' = FALSE
    /\ UNCHANGED <<priceVars, service, driver, is_logged_in, stop_event,
                   session_cookies, session_headers, browsers, start_warned,
                   quit_pc, clockVars, taskVars, applyVars, discVars>>

\* a call of login that the window has no part in
LoginBegin == CallLogin /\ UNCHANGED uiVars

\* lines 122-149: the browser steps, the transfer of the session, the return
LoginEnd(runs) ==
    /\ login_pc = "browser"
    /\ \E run \in runs :
        /\ login_run' = run
        /\ IF run.fails_at = "none"
           THEN /\ session_cookies' = copy_cookies(session_cookies, run.jar)
                /\ session_headers' = session_headers \cup LoginHeaders
                /\ is_logged_in' = TRUE                     \* line 144
                /\ login_ret' = LoginReturn(TRUE)
           ELSE /\ session_cookies' = copy_cookies(session_cookies, run.jar)
                /\ UNCHANGED session_headers
                /\ is_logged_in' = FALSE                    \* line 148
                /\ login_ret' = LoginReturn(FALSE)
    /\ login_pc' = "idle"
    /\ UNCHANGED <<priceVars, uiVars, service, driver, stop_event, browsers, start_warned,
                   quit_pc, since_quit, clockVars, taskVars, applyVars, discVars>>

(* quit (bot.py 250-260) *)

QuitSetStop ==
    /\ quit_pc = "idle"
    /\ stop_event' = TRUE                                  \* line 253
    /\ quit_pc' = "stopped"
    /\ stop_in_wait' = (stop_in_wait \/ apply_pc = "wait")
    /\ UNCHANGED <<priceVars, uiVars, service, driver, is_logged_in, session_cookies,
                   session_headers, browsers, start_warned, login_run, login_ret,
                   login_pc, since_quit, clockVars, taskVars,
                   apply_pc, listing_ids, auth_at_call, stop_at_call, timer_resp,
                   remaining_seconds, end_time, wait_start, wait_mode, slept,
                   timer_gets, collected, success_count, finished_msg, ret, discVars>>

QuitFinish ==
    /\ quit_pc = "stopped"
    /\ browsers' = IF driver THEN browsers - 1 ELSE browsers   \* lines 254-258
    /\ driver' = FALSE                                     \* line 259
    /\ is_logged_in' = FALSE                               \* line 260
    /\ quit_pc' = "idle"
    /\ since_quit' = TRUE
    /\ UNCHANGED <<priceVars, uiVars, service, stop_event, session_cookies, session_headers,
                   start_warned, login_run, login_ret, login_pc, clockVars, taskVars,
                   applyVars, discVars>>

----------------------------------------------------------------------------
(* apply_to_listings (bot.py 174-247) *)

\* the submitted tasks, one per entry of listing_ids (line 242)
Tasks == DOMAIN task_pc

\* lines 174-181: a call; the run state of an earlier call is forgotten
CallApply(batches) ==
    /\ apply_pc \in {"idle", "returned", "raised"}
    /\ \E ids \in batches : listing_ids' = ids
    /\ auth_at_call' = is_logged_in
    /\ stop_at_call' = (stop_event /\ quit_pc = "idle")
    /\ wait_start' = 0
    /\ timer_resp' = NoTimerResp
    /\ remaining_seconds' = None
    /\ end_time' = 0
    /\ wait_mode' = "none"
    /\ slept' = FALSE
    /\ stop_in_wait' = FALSE
    /\ timer_gets' = 0
    /\ collected' = {}
    /\ success_count' = 0
    /\ finished_msg' = None
    /\ task_pc' = <<>>
    /\ task_raised' = <<>>
    /\ page_res' = <<>>
    /\ submit_res' = <<>>
    /\ task_result' = <<>>
    /\ outcome_msg' = <<>>
    /\ n_get' = <<>>
    /\ n_post' = <<>>
    /\ apply_reports' = 0
    /\ IF NotAuthenticated
       THEN /\ apply_pc' = "returned"          \* lines 176-178
            /\ ret' = Returned(None)
       ELSE /\ apply_pc' = "timer"
            /\ ret' = NoReturn
    /\ UNCHANGED <<priceVars, botVars, clockVars, discVars>>

\* a call of apply_to_listings that the window has no part in
ApplyCall(batches) == CallApply(batches) /\ UNCHANGED uiVars

\* line 181 and lines 184-185 / 191-192: resolve the countdown, pick the loop
ApplyTimer(responses) ==
    /\ apply_pc = "timer"
    /\ \E resp \in responses :
        LET r == get_server_countdown_seconds(resp) IN
        /\ timer_resp' = resp
        /\ timer_gets' = timer_gets + 1
        /\ wait_start' = mono
        /\ remaining_seconds' = r.val
        /\ IF r.raised
           THEN /\ apply_pc' = "raised"
                /\ UNCHANGED <<end_time, wait_mode>>
           ELSE /\ apply_pc' = "wait"
                /\ IF CountdownKnown(r.val)
                   THEN /\ end_time' = mono + r.val.v
                        /\ wait_mode' = "countdown"
                   ELSE /\ end_time' = end_time
                        /\ wait_mode' = "wall"
    /\ UNCHANGED <<priceVars, uiVars, botVars, clockVars, taskVars, listing_ids, auth_at_call, stop_at_call, slept,
                   stop_in_wait, collected, success_count, finished_msg, ret,
                   discVars>>

\* lines 186-190 and 193-196: one evaluation of the loop condition; the loop
\* either sleeps one more second or is left
WaiterStays ==
    IF wait_mode = "countdown"
    THEN CountdownWaiting
    ELSE ~stop_event /\ ~WindowOpen

ApplyWait ==
    /\ apply_pc = "wait"
    /\ IF WaiterStays
       THEN /\ slept' = TRUE
            /\ apply_pc' = apply_pc
       ELSE /\ slept' = slept
            /\ apply_pc' = "check_stop"
    /\ UNCHANGED <<priceVars, uiVars, botVars, clockVars, taskVars, listing_ids, auth_at_call, stop_at_call,
                   timer_resp, remaining_seconds, end_time, wait_start, wait_mode,
                   stop_in_wait, timer_gets, collected, success_count, finished_msg,
                   ret, discVars>>

\* lines 198-202 and 240-242: abort, or hand every id to the executor
ApplyCheckStop ==
    /\ apply_pc = "check_stop"
    /\ IF AbortOnStop
       THEN /\ apply_pc' = "returned"
            /\ ret' = Returned(None)
            /\ UNCHANGED taskVars
       ELSE /\ apply_pc' = "collect"
            /\ ret' = ret
            /\ task_pc' = [i \in 1 .. Len(listing_ids) |-> "queued"]
            /\ task_raised' = [i \in 1 .. Len(listing_ids) |-> FALSE]
            /\ page_res' = [i \in 1 .. Len(listing_ids) |-> NoPage]
            /\ submit_res' = [i \in 1 .. Len(listing_ids) |-> NoSubmit]
            /\ task_result' = [i \in 1 .. Len(listing_ids) |-> FALSE]
            /\ outcome_msg' = [i \in 1 .. Len(listing_ids) |-> 0]
            /\ n_get' = [i \in 1 .. Len(listing_ids) |-> 0]
            /\ n_post' = [i \in 1 .. Len(listing_ids) |-> 0]
            /\ UNCHANGED apply_reports
    /\ UNCHANGED <<priceVars, uiVars, botVars, clockVars, listing_ids, auth_at_call, stop_at_call, timer_resp,
                   remaining_seconds, end_time, wait_start, wait_mode, slept,
                   stop_in_wait, timer_gets, collected, success_count, finished_msg,
                   discVars>>

\* Faulty variant: a thread per task, whatever the number of running tasks.
worker_free_always(running) == TRUE
\* ThreadPoolExecutor(max_workers=10), lines 241 and 382: the pool has at most
\* max_workers threads, each running one task at a time
worker_free(running) == Cardinality(running) < max_workers

Running == {i \in Tasks : task_pc[i] \in {"get", "post"}}

\* a worker takes the next task from the queue of the executor, which is
\* first-in first-out (the order of the submit calls of line 242)
TaskStart(i) ==
    /\ apply_pc = "collect"
    /\ task_pc[i] = "queued"
    /\ \A j \in Tasks : j < i => task_pc[j] # "queued"
    /\ worker_free(Running)
    /\ task_pc' = [task_pc EXCEPT ![i] = "get"]
    /\ UNCHANGED <<priceVars, uiVars, botVars, clockVars, applyVars, discVars, task_raised, page_res,
                   submit_res, task_result, outcome_msg, n_get, n_post, apply_reports>>

\* Faulty variant: a failed attempt is made again.
after_attempt_retries(result) == IF result THEN "done" ELSE "get"
\* lines 216, 223, 231, 234, 238: every path of _apply_task returns
after_attempt(result) == "done"

\* The task ends: its return value, the exception its future holds, and the
\* outcome messages it has put on the status queue.
TaskEnds(i, result, raised, msgs) ==
    /\ task_pc' = [task_pc EXCEPT ![i] = after_attempt(result)]
    /\ task_result' = [task_result EXCEPT ![i] = result]
    /\ task_raised' = [task_raised EXCEPT ![i] = raised]
    /\ outcome_msg' = [outcome_msg EXCEPT ![i] = @ + msgs]

\* lines 206-223: GET the application page, find the form, build the payload.
\* pages: the answers the GET can have; NoPage among them stands for a
\* session.get that raises (network error, timeout).
TaskGet(i, pages) ==
    /\ task_pc[i] = "get"
    /\ n_get' = [n_get EXCEPT ![i] = @ + 1]
    /\ \E p \in pages :
          IF p = NoPage
          THEN /\ TaskEnds(i, on_task_exception.result, on_task_exception.raised,
                           on_task_exception.msg)
               /\ apply_reports' = apply_reports + on_task_exception.threads
               /\ UNCHANGED page_res
          ELSE /\ page_res' = [page_res EXCEPT ![i] = p]
               /\ UNCHANGED apply_reports
               /\ IF form_found(p) /\ token_present(build_payload(p))
                  THEN /\ task_pc' = [task_pc EXCEPT ![i] = "post"]
                       /\ UNCHANGED <<task_result, task_raised, outcome_msg>>
                  ELSE TaskEnds(i, FALSE, FALSE, 1)      \* lines 215-216, 222-223
    /\ UNCHANGED <<priceVars, uiVars, botVars, clockVars, applyVars, discVars, submit_res, n_post>>

\* lines 225-234: POST the payload, classify the response.  NoSubmit among
\* the responses stands for a session.post that raises.
TaskPost(i, responses) ==
    /\ task_pc[i] = "post"
    /\ n_post' = [n_post EXCEPT ![i] = @ + 1]
    /\ \E res \in responses :
          IF res = NoSubmit
          THEN /\ TaskEnds(i, on_task_exception.result, on_task_exception.raised,
                           on_task_exception.msg)
               /\ apply_reports' = apply_reports + on_task_exception.threads
               /\ UNCHANGED submit_res
          ELSE /\ submit_res' = [submit_res EXCEPT ![i] = res]
               /\ UNCHANGED apply_reports
               /\ TaskEnds(i, is_success(res), FALSE, 1)
    /\ UNCHANGED <<priceVars, uiVars, botVars, clockVars, applyVars, discVars, page_res, n_get>>

\* lines 80-84: the thread of a report ends when send_discord_report returns;
\* nothing joins it
ReportEnds ==
    /\ apply_reports > 0
    /\ apply_reports' = apply_reports - 1
    /\ UNCHANGED <<priceVars, uiVars, botVars, clockVars, applyVars, discVars, task_pc, task_raised,
                   page_res, submit_res, task_result, outcome_msg, n_get, n_post>>

\* lines 243-245: as_completed yields a finished future; future.result()
\* re-raises what the task raised, and the with block then waits for the
\* other tasks before the exception leaves apply_to_listings
Collect(i) ==
    /\ apply_pc = "collect"
    /\ task_pc[i] = "done"
    /\ i \notin collected
    /\ collected' = collected \cup {i}
    /\ IF task_raised[i]
       THEN /\ apply_pc' = "unwinding"
            /\ UNCHANGED success_count
       ELSE /\ apply_pc' = apply_pc
            /\ success_count' = count_result(success_count, task_result[i])
    /\ UNCHANGED <<priceVars, uiVars, botVars, clockVars, taskVars, listing_ids, auth_at_call, stop_at_call,
                   timer_resp, remaining_seconds, end_time, wait_start, wait_mode,
                   slept, stop_in_wait, timer_gets, finished_msg, ret, discVars>>

\* line 241 (__exit__ joins the workers) and line 247
ApplyFinish ==
    /\ apply_pc \in {"collect", "unwinding"}
    /\ \A i \in Tasks : task_pc[i] = "done"
    /\ IF apply_pc = "unwinding"
       THEN /\ apply_pc' = "raised"
            /\ UNCHANGED <<finished_msg, ret>>
       ELSE /\ collected = Tasks
            /\ finished_msg' = Some(success_count)
            /\ ret' = Returned(None)             \* no return statement
            /\ apply_pc' = "returned"
    /\ UNCHANGED <<priceVars, uiVars, botVars, clockVars, taskVars, listing_ids, auth_at_call, stop_at_call,
                   timer_resp, remaining_seconds, end_time, wait_start, wait_mode,
                   slept, stop_in_wait, timer_gets, collected, success_count,
                   discVars>>

----------------------------------------------------------------------------
(* _parse_price (bot.py 262-265).  A text is a sequence of characters, a   *)
(* parsed value the fraction num / den.                                    *)

Digits == {"0", "1", "2", "3", "4", "5", "6", "7", "8", "9"}

DigitVal(c) ==
    CASE c = "0" -> 0 [] c = "1" -> 1 [] c = "2" -> 2 [] c = "3" -> 3
      [] c = "4" -> 4 [] c = "5" -> 5 [] c = "6" -> 6 [] c = "7" -> 7
      [] c = "8" -> 8 [] c = "9" -> 9

IsPriceChar(c) == c \in Digits \cup {","}

\* re.sub(r'[^\d,]', '', price_text)
StripPrice(text) == SelectSeq(text, IsPriceChar)

\* .replace(',', '.')
CommaToPoint(text) == [i \in DOMAIN text |-> IF text[i] = "," THEN "." ELSE text[i]]

IsPoint(c) == c = "."
IsDigit(c) == c \in Digits

RECURSIVE DigitsValue(_)
DigitsValue(ds) ==
    IF ds = <<>> THEN 0
    ELSE DigitsValue(SubSeq(ds, 1, Len(ds) - 1)) * 10 + DigitVal(ds[Len(ds)])

RECURSIVE PowerOfTen(_)
PowerOfTen(n) == IF n = 0 THEN 1 ELSE 10 * PowerOfTen(n - 1)

\* float(text) for a text of digits and points: a ValueError unless the text has
\* a digit and at most one point
ToFloat(text) ==
    LET points == Len(SelectSeq(text, IsPoint))
        ds == SelectSeq(text, IsDigit)
        at == CHOOSE i \in 1 .. Len(text) + 1 :
                  /\ i = Len(text) + 1 \/ text[i] = "."
                  /\ \A j \in 1 .. i - 1 : text[j] # "."
    IN  IF ds = <<>> \/ points > 1
        THEN [raised |-> TRUE, num |-> 0, den |-> 1]
        ELSE [raised |-> FALSE, num |-> DigitsValue(ds),
              den |-> IF points = 0 THEN 1 ELSE PowerOfTen(Len(text) - at)]

_parse_price(price_text) ==
    IF price_text = <<>>
    THEN [raised |-> FALSE, num |-> 0, den |-> 1]
    ELSE ToFloat(CommaToPoint(StripPrice(price_text)))

PriceLeq(a, b) == a.num * b.den <= b.num * a.den

\* Price texts: every text of at most MaxPriceLen of these characters ("E" stands
\* for the euro sign), and some longer ones
MaxPriceLen == 3
PriceChars == {"E", " ", "0", "1", ".", ","}
PriceExamples ==
    { <<"E", " ", "1", ".", "2", "3", "4", ",", "5", "6">>,
      <<"0", ",", "0", "0">>,
      <<"n", ".", "v", ".", "t", ".">>,
      <<"1", ",", "2", "3", "4", ",", "5", "6">> }
PriceTexts == UNION {[1 .. n -> PriceChars] : n \in 0 .. MaxPriceLen} \cup PriceExamples
PriceInputs == {None} \cup {Some(t) : t \in PriceTexts}

\* one call of _parse_price; 'not price_text' holds for None and for ''
ParsePrice ==
    /\ ~price_res.called
    /\ LET r == IF price_in.is_none THEN _parse_price(<<>>) ELSE _parse_price(price_in.v)
       IN  price_res' = [called |-> TRUE, raised |-> r.raised, num |-> r.num, den |-> r.den]
    /\ UNCHANGED <<price_in, uiVars, botVars, clockVars, taskVars, applyVars, discVars>>

----------------------------------------------------------------------------
(* Messages of the search and detail endpoints *)

\* A field that is absent from a JSON object (dict.get gives None)
Missing == "<missing>"

SearchResult(fid, aid, groep) ==
    [FrontendAdvertentieId |-> fid, AdvertentieId |-> aid, SorteringsGroep |-> groep]

SearchResultLists ==
    { <<>>,
      <<SearchResult("a", Missing, "voorrang")>>,
      <<SearchResult("a", Missing, "voorrang"), SearchResult("b", "b", "uitgesloten")>>,
      <<SearchResult("a", Missing, "voorrang"), SearchResult("b", Missing, "voorrang")>>,
      <<SearchResult("a", Missing, "geenvoorrang"), SearchResult("a", Missing, "voorrang")>>,
      <<SearchResult(Missing, Missing, "voorrang"), SearchResult("b", Missing, Missing)>>,
      <<SearchResult("b", Missing, "Uitgesloten")>> }

\* Search answers the handler of line 367 turns into a reported error: the POST
\* raises, the status is an error, the body is no JSON, the JSON is no object,
\* its 'd' is null, its 'resultaten' is null.
SearchCaughtKinds == {"transport_error", "http_error", "bad_json", "not_object",
                      "d_null", "results_null"}
\* JSON of a wrong shape that passes the try block: a non-empty 'resultaten'
\* list whose items are not objects.
SearchShapeKinds == {"bad_items"}
\* An object without 'd', or a 'd' without 'resultaten': dict.get reads it as
\* an empty result list.
SearchEmptyKinds == {"no_d"}
SearchResponses ==
    {[kind |-> k, results |-> <<>>] :
        k \in SearchCaughtKinds \cup SearchShapeKinds \cup SearchEmptyKinds}
    \cup {[kind |-> "ok", results |-> rs] : rs \in SearchResultLists}

\* A detail object ('Aanbod'): publstart as the time it names, in hours since
\* the midnight before now (None when the text is absent or does not parse,
\* _parse_publ_date lines 267-271), the kalehuur text, and whether 'media' is a
\* list.
HoursPerDay == 24
Detail(publ, huur, media) == [publstart |-> publ, kalehuur |-> huur, media_is_list |-> media]
NoDetail == [is_none |-> TRUE, v |-> Detail(None, <<>>, TRUE)]

Details ==
    { Detail(Some(APPLICATION_HOUR - 1), <<"9", "0", "0", ",", "0", "0">>, TRUE),
      Detail(Some(APPLICATION_HOUR), <<"7", "5", "0", ",", "0", "0">>, TRUE),
      Detail(Some(APPLICATION_HOUR + HoursPerDay), <<"7", "5", "0">>, TRUE),
      Detail(None, <<>>, TRUE),
      Detail(None, <<"n", ".", "v", ".", "t", ".">>, TRUE),
      Detail(None, <<"1", ".", "1", "0", "0", ",", "5">>, FALSE) }

\* Outcomes of get_listing_details (bot.py 438-450): the detail, None after a
\* requests.RequestException or for a body without 'Aanbod', or an exception of
\* another kind (a body whose JSON is no object), which the caller catches at
\* line 388.
DetailOutcomes ==
    {[kind |-> "ok", detail |-> Some(d)] : d \in Details}
    \cup {[kind |-> k, detail |-> NoDetail] : k \in {"request_error", "no_aanbod", "raises"}}

----------------------------------------------------------------------------
(* discover_all_listings_with_categories (bot.py 343-436) *)

\* line 374: str(r.get('FrontendAdvertentieId') or r.get('AdvertentieId'))
str_id(r) ==
    IF r.FrontendAdvertentieId # Missing THEN r.FrontendAdvertentieId
    ELSE IF r.AdvertentieId # Missing THEN r.AdvertentieId
    ELSE "None"

\* Faulty variant: a list of the results, an id that comes twice is kept twice.
RECURSIVE BuildIdMap_keeps_duplicates(_, _)
BuildIdMap_keeps_duplicates(results, acc) ==
    IF results = <<>> THEN acc
    ELSE LET r == Head(results)
             fid == str_id(r)
         IN  IF fid = ""
             THEN BuildIdMap_keeps_duplicates(Tail(results), acc)
             ELSE BuildIdMap_keeps_duplicates(Tail(results),
                                              Append(acc, [fid |-> fid, meta |-> r]))
\* lines 372-377: a dict keeps the position of the first insertion of a key
\* and the value of the last
RECURSIVE BuildIdMap(_, _)
BuildIdMap(results, acc) ==
    IF results = <<>> THEN acc
    ELSE LET r == Head(results)
             fid == str_id(r)
             at == {i \in DOMAIN acc : acc[i].fid = fid}
         IN  IF fid = ""
             THEN BuildIdMap(Tail(results), acc)
             ELSE IF at = {}
             THEN BuildIdMap(Tail(results), Append(acc, [fid |-> fid, meta |-> r]))
             ELSE BuildIdMap(Tail(results),
                             [acc EXCEPT ![CHOOSE i \in at : TRUE].meta = r])

IdsOf(m) == {m[i].fid : i \in DOMAIN m}

\* str.lower() on the group names the search answers carry
Lower(g) ==
    CASE g = "Voorrang" -> "voorrang"
      [] g = "Uitgesloten" -> "uitgesloten"
      [] OTHER -> g

\* Faulty variant: the publish time itself does not count as passed.
is_live_strictly_after(publ, now_hour) == ~publ.is_none /\ now_hour > publ.v
\* line 399
is_live(publ, now_hour) == ~publ.is_none /\ now_hour >= publ.v
\* line 400
is_in_selectable_window(now_hour) == now_hour >= APPLICATION_HOUR - 2
\* line 393
after_application_hour(now_hour) == now_hour >= APPLICATION_HOUR
\* line 408: strftime('%H:%M') of the publish time, or the application hour
start_time_str(publ) == IF publ.is_none THEN APPLICATION_HOUR ELSE publ.v % HoursPerDay

\* Faulty variant: the override of line 401 is missing.
status_text_by_publish(publ, now_hour) ==
    IF is_live(publ, now_hour) THEN <<"LIVE">>
    ELSE IF is_in_selectable_window(now_hour) THEN <<"SELECTABLE", start_time_str(publ)>>
    ELSE <<"PREVIEW", start_time_str(publ)>>
\* lines 401-409
status_text(publ, now_hour) ==
    IF after_application_hour(now_hour) \/ is_live(publ, now_hour) THEN <<"LIVE">>
    ELSE IF is_in_selectable_window(now_hour) THEN <<"SELECTABLE", start_time_str(publ)>>
    ELSE <<"PREVIEW", start_time_str(publ)>>

\* lines 403 and 410: the group is compared as the search answer spells it
can_be_selected(publ, now_hour, groep) ==
    IF after_application_hour(now_hour) THEN groep # "uitgesloten"
    ELSE (is_live(publ, now_hour) \/ is_in_selectable_window(now_hour))
         /\ groep # "uitgesloten"

\* lines 396-426: one listing object; raised when _parse_price or the walk
\* over 'media' raises
listing_obj(fid, meta, detail, now_hour) ==
    LET has == ~detail.is_none
        d == detail.v
        publ == IF has THEN d.publstart ELSE None
        price == IF has THEN _parse_price(d.kalehuur)
                 ELSE [raised |-> FALSE, num |-> 0, den |-> 1]
    IN  [raised |-> price.raised \/ (has /\ ~d.media_is_list),
         cat |-> IF meta.SorteringsGroep = Missing THEN "" ELSE Lower(meta.SorteringsGroep),
         obj |-> [id |-> fid,
                  price_float |-> [num |-> price.num, den |-> price.den],
                  status_text |-> status_text(publ, now_hour),
                  is_selectable |-> can_be_selected(publ, now_hour, meta.SorteringsGroep),
                  category |-> IF meta.SorteringsGroep = Missing THEN "unknown"
                               ELSE meta.SorteringsGroep]]

\* line 428: categories.setdefault(cat, []).append(listing_obj)
AddToCategory(cats, cat, obj) ==
    IF cat \in DOMAIN cats
    THEN [cats EXCEPT ![cat] = Append(@, obj)]
    ELSE cats @@ (cat :> <<obj>>)

\* Faulty variant: the loop walks the details in the order they arrived.
items_by_completion(idmap) ==
    [i \in 1 .. Len(detail_order) |->
        idmap[CHOOSE j \in DOMAIN idmap : idmap[j].fid = detail_order[i]]]
\* line 396: id_map.items(), in the order the keys were first inserted
items(idmap) == idmap

\* Faulty variant: a listing without detail is skipped (if not detail: continue).
RECURSIVE Classify_skips_failed(_, _, _, _)
Classify_skips_failed(its, dmap, now_hour, cats) ==
    IF its = <<>> THEN [raised |-> FALSE, value |-> cats]
    ELSE LET it == Head(its)
             detail == IF it.fid \in DOMAIN dmap THEN dmap[it.fid] ELSE NoDetail
             l == listing_obj(it.fid, it.meta, detail, now_hour)
         IN  IF detail.is_none
             THEN Classify_skips_failed(Tail(its), dmap, now_hour, cats)
             ELSE IF l.raised THEN [raised |-> TRUE, value |-> cats]
             ELSE Classify_skips_failed(Tail(its), dmap, now_hour,
                                        AddToCategory(cats, l.cat, l.obj))
\* lines 396-430: the loop; line 397 reads a missing or None detail as {}
RECURSIVE Classify(_, _, _, _)
Classify(its, dmap, now_hour, cats) ==
    IF its = <<>> THEN [raised |-> FALSE, value |-> cats]
    ELSE LET it == Head(its)
             detail == IF it.fid \in DOMAIN dmap THEN dmap[it.fid] ELSE NoDetail
             l == listing_obj(it.fid, it.meta, detail, now_hour)
         IN  IF l.raised THEN [raised |-> TRUE, value |-> cats]
             ELSE Classify(Tail(its), dmap, now_hour, AddToCategory(cats, l.cat, l.obj))

\* list.sort(key=price_float), a stable sort (lines 432-433)
RECURSIVE InsertByPrice(_, _)
InsertByPrice(sorted, x) ==
    IF sorted = <<>> THEN <<x>>
    ELSE IF PriceLeq(sorted[Len(sorted)].price_float, x.price_float)
    THEN Append(sorted, x)
    ELSE Append(InsertByPrice(SubSeq(sorted, 1, Len(sorted) - 1), x), sorted[Len(sorted)])

\* Faulty variant: the lists are left in the order of insertion.
SortByPrice_unsorted(list) == list
RECURSIVE SortByPrice(_)
SortByPrice(list) ==
    IF list = <<>> THEN <<>>
    ELSE InsertByPrice(SortByPrice(SubSeq(list, 1, Len(list) - 1)), list[Len(list)])

\* lines 351-354: a call; the state of an earlier call is forgotten.  With
\* remember, what the earlier call was given and what it returned are kept in
\* prev_run, so that two calls can be compared.
CallDiscover(remember) ==
    /\ disc_pc \in {"idle", "returned", "raised"}
    /\ prev_run' = IF remember /\ disc_pc = "returned"
                   THEN [known |-> TRUE, search |-> search_resp, details |-> detail_map,
                         now |-> disc_now, order |-> detail_order,
                         value |-> disc_ret.value]
                   ELSE NoRun
    /\ search_resp' = NoSearchResp
    /\ id_map' = <<>>
    /\ detail_pc' = <<>>
    /\ detail_map' = <<>>
    /\ detail_posts' = <<>>
    /\ detail_out' = <<>>
    /\ detail_order' = <<>>
    /\ disc_now' = 0
    /\ disc_errors' = 0
    /\ IF ~is_logged_in
       THEN /\ disc_pc' = "returned"
            /\ disc_ret' = [returned |-> TRUE, value |-> EmptyCategories]
       ELSE /\ disc_pc' = "search"
            /\ disc_ret' = NoDiscReturn
    /\ UNCHANGED <<priceVars, botVars, clockVars, taskVars, applyVars>>

\* a call of discovery that the window has no part in
DiscoverCall(remember) == CallDiscover(remember) /\ UNCHANGED uiVars

\* What the search phase does with an answer (lines 355-378)
\* lines 358-363 raise inside the try block
search_caught(resp) == resp.kind \in SearchCaughtKinds

DiscoverSearch(responses) ==
    /\ disc_pc = "search"
    /\ \E resp \in responses :
        /\ search_resp' = resp
        /\ IF search_caught(resp)
           THEN \* lines 367-369
                /\ disc_errors' = disc_errors + 1
                /\ disc_pc' = "returned"
                /\ disc_ret' = [returned |-> TRUE, value |-> EmptyCategories]
                /\ UNCHANGED <<id_map, detail_pc>>
           ELSE IF resp.kind \in SearchEmptyKinds
                   \/ (resp.kind = "ok" /\ resp.results = <<>>)
           THEN \* lines 364-366
                /\ disc_pc' = "returned"
                /\ disc_ret' = [returned |-> TRUE, value |-> EmptyCategories]
                /\ UNCHANGED <<id_map, detail_pc, disc_errors>>
           ELSE IF resp.kind = "ok"
           THEN \* lines 372-379, and line 383: a task for every key of id_map
                /\ id_map' = BuildIdMap(resp.results, <<>>)
                /\ detail_pc' = [i \in DOMAIN id_map' |-> "queued"]
                /\ disc_pc' = "details"
                /\ UNCHANGED <<disc_ret, disc_errors>>
           ELSE \* line 374: r.get on an item that is no object, outside the try
                /\ disc_pc' = "raised"
                /\ UNCHANGED <<id_map, detail_pc, disc_ret, disc_errors>>
    /\ UNCHANGED <<priceVars, uiVars, botVars, clockVars, taskVars, applyVars, detail_map, detail_posts,
                   detail_out, detail_order, disc_now, prev_run>>

\* d[k] = v on a dict
Put(d, k, v) == [x \in DOMAIN d \cup {k} |-> IF x = k THEN v ELSE d[x]]

DetailTasks == DOMAIN detail_pc
DetailRunning == {i \in DetailTasks : detail_pc[i] = "running"}

\* lines 382-383: a worker takes the next detail task from the queue and runs
\* get_listing_details, which has no guard of its own and issues the POST
\* (lines 438-443)
DetailStart(i) ==
    /\ disc_pc = "details"
    /\ detail_pc[i] = "queued"
    /\ \A j \in DetailTasks : j < i => detail_pc[j] # "queued"
    /\ worker_free(DetailRunning)
    /\ detail_pc' = [detail_pc EXCEPT ![i] = "running"]
    /\ LET lid == id_map[i].fid IN
        /\ detail_posts' = Put(detail_posts, lid,
                               IF lid \in DOMAIN detail_posts
                               THEN detail_posts[lid] + 1 ELSE 1)
        /\ detail_out' = Put(detail_out, lid, [kind |-> "running", auth |-> is_logged_in])
    /\ UNCHANGED <<priceVars, uiVars, botVars, clockVars, taskVars, applyVars, disc_pc, search_resp,
                   id_map, detail_map, detail_order, disc_now, disc_errors, disc_ret,
                   prev_run>>

\* lines 384-390: get_listing_details ends and as_completed yields its future;
\* keep_order: whether the order of the yields is kept in detail_order
DetailEnd(i, outcomes, keep_order) ==
    /\ disc_pc = "details"
    /\ detail_pc[i] = "running"
    /\ detail_pc' = [detail_pc EXCEPT ![i] = "done"]
    /\ \E out \in outcomes :
        LET lid == id_map[i].fid IN
        /\ detail_map' = Put(detail_map, lid, out.detail)
        /\ detail_out' = Put(detail_out, lid, [detail_out[lid] EXCEPT !.kind = out.kind])
        /\ detail_order' = IF keep_order THEN Append(detail_order, lid) ELSE detail_order
        /\ disc_errors' = IF out.kind = "raises" THEN disc_errors + 1 ELSE disc_errors
    /\ UNCHANGED <<priceVars, uiVars, botVars, clockVars, taskVars, applyVars, disc_pc, search_resp,
                   id_map, detail_posts, disc_now, disc_ret, prev_run>>

\* lines 392-436
DiscoverFinish ==
    /\ disc_pc = "details"
    /\ \A i \in DetailTasks : detail_pc[i] = "done"
    /\ disc_now' = hour
    /\ LET c == Classify(items(id_map), detail_map, hour, EmptyCategories) IN
        IF c.raised
        THEN /\ disc_pc' = "raised"
             /\ UNCHANGED disc_ret
        ELSE /\ disc_pc' = "returned"
             /\ disc_ret' = [returned |-> TRUE,
                             value |-> [k \in DOMAIN c.value |-> SortByPrice(c.value[k])]]
    /\ UNCHANGED <<priceVars, uiVars, botVars, clockVars, taskVars, applyVars, search_resp, id_map,
                   detail_pc, detail_map, detail_posts, detail_out, detail_order,
                   disc_errors, prev_run>>

----------------------------------------------------------------------------
(* The window (hybrid_bot.py, class App).  Handlers and after-callbacks run  *)
(* on the main thread, one at a time; each wrapper runs on a thread of its  *)
(* own.                                                                     *)

PRE_SELECTION_HOUR == 18
FINAL_REFRESH_HOUR == 19
\* line 167: the filter 'GeenVoorrang' as the window starts it
show_geenvoorrang == TRUE

MaxUiWorkers == 2       \* threads of one kind alive at a time
MaxPending == 2         \* callbacks, and messages, waiting for the main thread

\* Faulty variant: the Login button is NORMAL again once logged in.
set_controls_state_login_stays(state, any_selectable) ==
    CASE state = "initial" -> [login |-> TRUE, discover |-> FALSE, apply |-> FALSE]
      [] state = "processing" -> [login |-> FALSE, discover |-> FALSE, apply |-> FALSE]
      [] state = "logged_in" -> [login |-> TRUE, discover |-> TRUE, apply |-> any_selectable]
\* lines 204-212
set_controls_state(state, any_selectable) ==
    CASE state = "initial" -> [login |-> TRUE, discover |-> FALSE, apply |-> FALSE]
      [] state = "processing" -> [login |-> FALSE, discover |-> FALSE, apply |-> FALSE]
      [] state = "logged_in" -> [login |-> FALSE, discover |-> TRUE, apply |-> any_selectable]

\* line 211
AnySelectable == \E i \in DOMAIN listing_widgets : listing_widgets[i].is_selectable

SetControls(state) ==
    LET c == set_controls_state(state, AnySelectable) IN
    /\ login_button' = c.login
    /\ discover_button' = c.discover
    /\ apply_button' = c.apply

NoBotStep == UNCHANGED <<priceVars, botVars, clockVars, taskVars, applyVars, discVars>>

\* lines 214-218: a click on Login (credentials filled in)
start_login ==
    /\ login_button
    /\ login_worker = "none"
    /\ SetControls("processing")
    /\ login_worker' = "started"
    /\ NoBotStep
    /\ UNCHANGED show_uitgesloten
    /\ UNCHANGED <<disc_workers, disc_calling, apply_workers, apply_calling, apply_args,
                   after_queue, discovery_due, status_msgs, listing_widgets, selected>>

\* line 221: the thread enters login
WorkerLogin ==
    /\ login_worker = "started"
    /\ CallLogin
    /\ login_worker' = "called"
    /\ UNCHANGED <<buttonVars, disc_workers, disc_calling, apply_workers, apply_calling,
                   apply_args, after_queue, discovery_due, status_msgs, listing_widgets,
                   selected, show_uitgesloten>>

\* lines 222-227, once login has returned: the callbacks are posted, the thread
\* ends
LoginWrapup ==
    /\ login_worker = "called"
    /\ login_pc = "idle"
    /\ login_ret.returned
    /\ Len(after_queue) < MaxPending
    /\ after_queue' = Append(after_queue,
                             IF login_ret.ok
                             THEN [state |-> "logged_in", then_discover |-> TRUE]
                             ELSE [state |-> "initial", then_discover |-> FALSE])
    /\ login_worker' = "none"
    /\ NoBotStep
    /\ UNCHANGED show_uitgesloten
    /\ UNCHANGED <<buttonVars, disc_workers, disc_calling, apply_workers, apply_calling,
                   apply_args, discovery_due, status_msgs, listing_widgets, selected>>

\* a callback of self.after(0, self.set_controls_state, state) runs; the one of
\* after(100, self.start_discovery) posted with it is due later
RunCallback ==
    /\ after_queue # <<>>
    /\ SetControls(Head(after_queue).state)
    /\ discovery_due' = (discovery_due \/ Head(after_queue).then_discover)
    /\ after_queue' = Tail(after_queue)
    /\ NoBotStep
    /\ UNCHANGED show_uitgesloten
    /\ UNCHANGED <<workerVars, status_msgs, listing_widgets, selected>>

\* lines 229-231: start_discovery, from the button, from the callback of line
\* 227 or from scheduled_refresh_check (lines 250-257, at the minute of the
\* pre-selection or of the final refresh)
start_discovery ==
    /\ disc_workers < MaxUiWorkers
    /\ SetControls("processing")
    /\ disc_workers' = disc_workers + 1
    /\ NoBotStep
    /\ UNCHANGED show_uitgesloten
    /\ UNCHANGED <<login_worker, disc_calling, apply_workers, apply_calling, apply_args,
                   after_queue, status_msgs, listing_widgets, selected>>

ClickDiscover ==
    /\ discover_button
    /\ start_discovery
    /\ UNCHANGED discovery_due

DiscoveryDue ==
    /\ discovery_due
    /\ start_discovery
    /\ discovery_due' = FALSE

scheduled_refresh_check ==
    /\ is_logged_in
    /\ hour \in {PRE_SELECTION_HOUR, FINAL_REFRESH_HOUR}
    /\ start_discovery
    /\ UNCHANGED discovery_due

\* line 235: a thread enters the discovery call; the calls of two threads
\* share nothing but the session they read, and are taken one after the other
WorkerDiscover ==
    /\ disc_workers > 0
    /\ ~disc_calling
    /\ CallDiscover(FALSE)
    /\ disc_calling' = TRUE
    /\ UNCHANGED <<buttonVars, login_worker, disc_workers, apply_workers, apply_calling,
                   apply_args, after_queue, discovery_due, status_msgs, listing_widgets,
                   selected, show_uitgesloten>>

\* lines 236-237, once the call has returned; a call that raised ends its
\* thread without message and without callback
DiscoverWrapup ==
    /\ disc_calling
    /\ disc_pc \in {"returned", "raised"}
    /\ Len(after_queue) < MaxPending
    /\ Len(status_msgs) < MaxPending
    /\ IF disc_pc = "returned"
       THEN /\ status_msgs' = Append(status_msgs, disc_ret.value)
            /\ after_queue' = Append(after_queue,
                                     [state |-> "logged_in", then_discover |-> FALSE])
       ELSE UNCHANGED <<status_msgs, after_queue>>
    /\ disc_calling' = FALSE
    /\ disc_workers' = disc_workers - 1
    /\ NoBotStep
    /\ UNCHANGED show_uitgesloten
    /\ UNCHANGED <<buttonVars, login_worker, apply_workers, apply_calling, apply_args,
                   discovery_due, listing_widgets, selected>>

\* line 170: the check box 'Uitgesloten' is toggled while nothing was discovered
\* yet; refresh_category_view, its command, returns at line 294 (a later
\* toggle also rebuilds the view from last_categories)
toggle_show_uitgesloten ==
    /\ ~is_logged_in
    /\ show_uitgesloten' = ~show_uitgesloten
    /\ NoBotStep
    /\ UNCHANGED <<buttonVars, workerVars, after_queue, discovery_due, status_msgs,
                   listing_widgets, selected>>

\* lines 306-308: the categories on display, in this order
ShownCategories ==
    <<"voorrang">>
    \o (IF show_geenvoorrang THEN <<"geenvoorrang">> ELSE <<>>)
    \o (IF show_uitgesloten THEN <<"uitgesloten">> ELSE <<>>)

\* line 223: self.api_session, set by the login thread after a login that
\* succeeded
api_session == login_ret.ok /\ login_worker = "none"

\* lines 309-335: a widget for every listing of the categories on display, each
\* category sorted by price (sort_mode 'price_asc'); no widget while
\* api_session is None (line 330)
RECURSIVE WidgetsOf(_, _, _)
WidgetsOf(categories, order, session) ==
    IF order = <<>> THEN <<>>
    ELSE (IF Head(order) \in DOMAIN categories /\ session
          THEN SortByPrice(categories[Head(order)])
          ELSE <<>>)
         \o WidgetsOf(categories, Tail(order), session)

\* lines 356-360, on the widgets and the check boxes given
update_apply_button_state(widgets, sel) ==
    \E i \in DOMAIN widgets : widgets[i].is_selectable /\ widgets[i].id \in sel

\* lines 262-266 and 292-339: process_status_queue takes a '__categories__'
\* message and refresh_category_view rebuilds the widgets; a listing that was
\* selected before stays selected
process_status_queue ==
    /\ status_msgs # <<>>
    /\ status_msgs' = Tail(status_msgs)
    /\ LET widgets == WidgetsOf(Head(status_msgs), ShownCategories, api_session)
           sel == {widgets[i].id : i \in DOMAIN widgets} \cap selected
       IN  /\ listing_widgets' = widgets
           /\ selected' = sel
           /\ apply_button' = update_apply_button_state(widgets, sel)
    /\ discover_button' = (discover_button \/ is_logged_in)
    /\ NoBotStep
    /\ UNCHANGED show_uitgesloten
    /\ UNCHANGED <<login_button, workerVars, after_queue, discovery_due>>

\* lines 84-85: a click on the check box of a widget, which is NORMAL only for
\* a selectable listing
ToggleSelect(i) ==
    /\ listing_widgets[i].is_selectable
    /\ selected' = IF listing_widgets[i].id \in selected
                   THEN selected \ {listing_widgets[i].id}
                   ELSE selected \cup {listing_widgets[i].id}
    /\ NoBotStep
    /\ UNCHANGED show_uitgesloten
    /\ UNCHANGED <<buttonVars, workerVars, after_queue, discovery_due, status_msgs,
                   listing_widgets>>

\* lines 345-349: Select Voorrang (line 176) and the Select All of a category
\* on display other than 'uitgesloten' (line 326); without widgets the button
\* does what clear_all_selections does
bulk_select_category(category) ==
    /\ listing_widgets # <<>>
    /\ selected' = selected \cup
                     {listing_widgets[i].id : i \in
                        {j \in DOMAIN listing_widgets :
                            /\ listing_widgets[j].category = category
                            /\ listing_widgets[j].is_selectable}}
    /\ apply_button' = update_apply_button_state(listing_widgets, selected')
    /\ discover_button' = (discover_button \/ is_logged_in)
    /\ NoBotStep
    /\ UNCHANGED show_uitgesloten
    /\ UNCHANGED <<login_button, workerVars, after_queue, discovery_due, status_msgs,
                   listing_widgets>>

\* lines 351-354
clear_all_selections ==
    /\ selected' = {}
    /\ apply_button' = update_apply_button_state(listing_widgets, {})
    /\ discover_button' = (discover_button \/ is_logged_in)
    /\ NoBotStep
    /\ UNCHANGED show_uitgesloten
    /\ UNCHANGED <<login_button, workerVars, after_queue, discovery_due, status_msgs,
                   listing_widgets>>

IsSelectedWidget(w) == w.id \in selected
\* line 240
SelectedIds ==
    LET ws == SelectSeq(listing_widgets, IsSelectedWidget)
    IN  [i \in DOMAIN ws |-> ws[i].id]

\* lines 239-243: a click on Apply
start_apply ==
    /\ apply_button
    /\ apply_workers < MaxUiWorkers
    /\ IF SelectedIds = <<>>
       THEN UNCHANGED <<buttonVars, apply_workers, apply_args>>      \* line 241
       ELSE /\ SetControls("processing")
            /\ apply_workers' = apply_workers + 1
            /\ apply_args' = Append(apply_args, SelectedIds)
    /\ NoBotStep
    /\ UNCHANGED show_uitgesloten
    /\ UNCHANGED <<login_worker, disc_workers, disc_calling, apply_calling, after_queue,
                   discovery_due, status_msgs, listing_widgets, selected>>

\* line 246: a thread enters apply_to_listings
WorkerApply ==
    /\ apply_args # <<>>
    /\ ~apply_calling
    /\ CallApply({Head(apply_args)})
    /\ apply_args' = Tail(apply_args)
    /\ apply_calling' = TRUE
    /\ UNCHANGED <<buttonVars, login_worker, disc_workers, disc_calling, apply_workers,
                   after_queue, discovery_due, status_msgs, listing_widgets, selected,
                   show_uitgesloten>>

\* line 247, once the call has returned; a call that raised ends its thread
\* without callback
ApplyWrapup ==
    /\ apply_calling
    /\ apply_pc \in {"returned", "raised"}
    /\ Len(after_queue) < MaxPending
    /\ after_queue' = IF apply_pc = "returned"
                      THEN Append(after_queue,
                                  [state |-> "logged_in", then_discover |-> FALSE])
                      ELSE after_queue
    /\ apply_calling' = FALSE
    /\ apply_workers' = apply_workers - 1
    /\ NoBotStep
    /\ UNCHANGED show_uitgesloten
    /\ UNCHANGED <<buttonVars, login_worker, disc_workers, disc_calling, apply_args,
                   discovery_due, status_msgs, listing_widgets, selected>>

----------------------------------------------------------------------------
(* Specifications.  The submitter never reads what the waiter left behind and *)
(* the waiter never reads a page, so each is explored with the full range of  *)
(* its own inputs and a small range of the other's.                           *)

\* Inputs of login when another operation is explored
FewLoginRuns == {[fails_at |-> "none", jar |-> [n \in {"sid"} |-> "v1"]],
                 [fails_at |-> "marker", jar |-> <<>>]}

BotNext ==
    \/ StartBrowser(FALSE)
    \/ LoginBegin
    \/ LoginEnd(FewLoginRuns)
    \/ QuitSetStop
    \/ QuitFinish

\* Inputs of the waiter when the submitter is explored
FewTimerResponses == {[kind |-> "transport_error", ms |-> 0], [kind |-> "ok", ms |-> 0]}
\* Inputs of the submitter when the waiter is explored
FewBatches == {<<>>, <<"a">>}
FewPages == {[status |-> 200, button |-> TRUE, form |-> TRUE, inputs |-> {TokenField}]}
FewSubmitResponses == {[status |-> 200, text |-> {Processed}]}

\* the submitter, under every page and every POST response
Next ==
    \/ apply_pc = "wait" /\ HourTick      \* only the waiter reads the hour
    \/ BotNext
    \/ ApplyCall(Batches)
    \/ ApplyTimer(FewTimerResponses)
    \/ ApplyWait
    \/ ApplyCheckStop
    \/ \E i \in Tasks : TaskStart(i)
    \/ \E i \in Tasks : TaskGet(i, Pages \cup {NoPage})
    \/ \E i \in Tasks : TaskPost(i, SubmitResponses \cup {NoSubmit})
    \/ \E i \in Tasks : Collect(i)
    \/ ApplyFinish

Spec == Init /\ [][Next]_vars

\* the resolver and the waiter, under every timer response and both clocks
NextWaiter ==
    \/ Tick
    \/ HourTick
    \/ BotNext
    \/ ApplyCall(FewBatches)
    \/ ApplyTimer(TimerResponses)
    \/ ApplyWait
    \/ ApplyCheckStop
    \/ \E i \in Tasks : TaskStart(i)
    \/ \E i \in Tasks : TaskGet(i, FewPages \cup {NoPage})
    \/ \E i \in Tasks : TaskPost(i, FewSubmitResponses \cup {NoSubmit})
    \/ ReportEnds
    \/ \E i \in Tasks : Collect(i)
    \/ ApplyFinish

SpecWaiter == Init /\ [][NextWaiter]_vars

\* discovery
NextDiscover ==
    \/ HourTick
    \/ BotNext
    \/ DiscoverCall(FALSE)
    \/ DiscoverSearch(SearchResponses)
    \/ \E i \in DetailTasks : DetailStart(i)
    \/ \E i \in DetailTasks : DetailEnd(i, DetailOutcomes, FALSE)
    \/ DiscoverFinish

SpecDiscover == Init /\ [][NextDiscover]_vars

\* two discovery calls in a row, the first one remembered: one search answer
\* with two listings in one group, details with equal and unequal prices
TwoInOneGroup ==
    {[kind |-> "ok",
      results |-> <<SearchResult("a", Missing, "voorrang"),
                    SearchResult("b", Missing, "voorrang")>>]}
FewDetailOutcomes ==
    {[kind |-> "ok", detail |-> Some(d)] :
        d \in {Detail(Some(APPLICATION_HOUR), <<"7", "5", "0", ",", "0", "0">>, TRUE),
               Detail(Some(APPLICATION_HOUR + HoursPerDay), <<"7", "5", "0">>, TRUE),
               Detail(Some(APPLICATION_HOUR - 1), <<"9", "0", "0", ",", "0", "0">>, TRUE)}}
    \cup {[kind |-> "request_error", detail |-> NoDetail]}

NextTwice ==
    \/ StartBrowser(FALSE)
    \/ LoginBegin
    \/ LoginEnd(FewLoginRuns)
    \/ DiscoverCall(TRUE)
    \/ DiscoverSearch(TwoInOneGroup)
    \/ \E i \in DetailTasks : DetailStart(i)
    \/ \E i \in DetailTasks : DetailEnd(i, FewDetailOutcomes, TRUE)
    \/ DiscoverFinish

SpecTwice == Init /\ [][NextTwice]_vars

\* the browser and login, under every outcome of the browser steps and every
\* cookie jar
NextLogin ==
    \/ StartBrowser(TRUE)
    \/ LoginBegin
    \/ LoginEnd(LoginRuns)
    \/ QuitSetStop
    \/ QuitFinish

SpecLogin == Init /\ [][NextLogin]_vars

\* _parse_price on every price text
InitPrice ==
    /\ InitProgram
    /\ price_in \in PriceInputs

NextPrice == ParsePrice

SpecPrice == InitPrice /\ [][NextPrice]_vars

\* the two worker pools with one task more than the pools have workers: a
\* discovery of max_workers + 1 listings, and an apply call for all of them made
\* while the detail pool is full.  Every request has one outcome here.
BigBatch == [i \in 1 .. max_workers + 1 |-> ToString(i)]
BigSearch ==
    {[kind |-> "ok",
      results |-> [i \in DOMAIN BigBatch |-> SearchResult(BigBatch[i], Missing, "voorrang")]]}
OneDetailOutcome == {[kind |-> "request_error", detail |-> NoDetail]}
OnePage == {[status |-> 200, button |-> FALSE, form |-> FALSE, inputs |-> {}]}
GoodLoginRuns == {r \in FewLoginRuns : r.fails_at = "none"}
NoCallYet == apply_pc = "idle" /\ disc_pc = "idle" /\ ~is_logged_in
ApplyNotRunning == apply_pc \in {"idle", "returned"}
DetailPoolFull ==
    /\ Cardinality(DetailRunning) = max_workers
    /\ \A i \in DetailTasks : detail_pc[i] # "done"

NextPool ==
    \/ NoCallYet /\ StartBrowser(FALSE)
    \/ NoCallYet /\ LoginBegin
    \/ NoCallYet /\ LoginEnd(GoodLoginRuns)
    \/ ApplyNotRunning /\ DiscoverCall(FALSE)
    \/ ApplyNotRunning /\ DiscoverSearch(BigSearch)
    \/ ApplyNotRunning /\ \E i \in DetailTasks : DetailStart(i)
    \/ ApplyNotRunning /\ \E i \in DetailTasks : DetailEnd(i, OneDetailOutcome, FALSE)
    \/ ApplyNotRunning /\ DiscoverFinish
    \/ apply_pc = "idle" /\ DetailPoolFull /\ ApplyCall({BigBatch})
    \/ ApplyTimer({[kind |-> "ok", ms |-> 0]})
    \/ ApplyWait
    \/ ApplyCheckStop
    \/ \E i \in Tasks : TaskStart(i)
    \/ \E i \in Tasks : TaskGet(i, OnePage)
    \/ \E i \in Tasks : Collect(i)
    \/ ApplyFinish

SpecPool == Init /\ [][NextPool]_vars

\* the window: the bot is called by the threads of the window only
AppSearch ==
    {[kind |-> "ok",
      results |-> <<SearchResult("a", Missing, "voorrang"),
                    SearchResult("b", "b", "uitgesloten")>>]}

NextApp ==
    \/ StartBrowser(FALSE)          \* the thread of hybrid_bot.py line 126
    \/ start_login
    \/ WorkerLogin
    \/ LoginEnd(FewLoginRuns)
    \/ LoginWrapup
    \/ RunCallback
    \/ ClickDiscover
    \/ DiscoveryDue
    \/ scheduled_refresh_check
    \/ WorkerDiscover
    \/ DiscoverSearch(AppSearch)
    \/ \E i \in DetailTasks : DetailStart(i)
    \/ \E i \in DetailTasks : DetailEnd(i, OneDetailOutcome, FALSE)
    \/ DiscoverFinish
    \/ DiscoverWrapup
    \/ process_status_queue
    \/ \E i \in DOMAIN listing_widgets : ToggleSelect(i)
    \/ \E c \in {"voorrang", "geenvoorrang"} : bulk_select_category(c)
    \/ clear_all_selections
    \/ start_apply
    \/ WorkerApply
    \/ ApplyTimer({[kind |-> "ok", ms |-> 0]})
    \/ ApplyWait
    \/ ApplyCheckStop
    \/ \E i \in Tasks : TaskStart(i)
    \/ \E i \in Tasks : TaskGet(i, OnePage)
    \/ \E i \in Tasks : Collect(i)
    \/ ApplyFinish
    \/ ApplyWrapup

SpecApp == Init /\ [][NextApp]_vars

\* the view and the selection: the group of a listing changes from one
\* discovery to the next, and the filter 'Uitgesloten' can be set
ViewSearch ==
    {[kind |-> "ok", results |-> <<SearchResult("a", Missing, "voorrang")>>],
     [kind |-> "ok",
      results |-> <<SearchResult("a", Missing, "uitgesloten"),
                    SearchResult("b", Missing, "voorrang")>>]}

\* the user waits for the threads to end before the next click
ViewAtRest ==
    /\ login_worker = "none"
    /\ disc_workers = 0
    /\ apply_workers = 0

NextView ==
    \/ NoCallYet /\ StartBrowser(FALSE)
    \/ ViewAtRest /\ toggle_show_uitgesloten
    \/ start_login
    \/ WorkerLogin
    \/ LoginEnd(GoodLoginRuns)
    \/ LoginWrapup
    \/ RunCallback
    \/ ViewAtRest /\ ClickDiscover
    \/ DiscoveryDue
    \/ WorkerDiscover
    \/ DiscoverSearch(ViewSearch)
    \/ \E i \in DetailTasks : DetailStart(i)
    \/ \E i \in DetailTasks : DetailEnd(i, OneDetailOutcome, FALSE)
    \/ DiscoverFinish
    \/ DiscoverWrapup
    \/ process_status_queue
    \/ ViewAtRest /\ \E i \in DOMAIN listing_widgets : ToggleSelect(i)
    \/ ViewAtRest /\ \E c \in {"voorrang", "geenvoorrang"} : bulk_select_category(c)
    \/ ViewAtRest /\ clear_all_selections
    \/ ViewAtRest /\ start_apply
    \/ WorkerApply
    \/ ApplyTimer({[kind |-> "ok", ms |-> 0]})
    \/ ApplyWait
    \/ ApplyCheckStop
    \/ \E i \in Tasks : TaskStart(i)
    \/ \E i \in Tasks : TaskGet(i, OnePage)
    \/ \E i \in Tasks : Collect(i)
    \/ ApplyFinish
    \/ ApplyWrapup

SpecView == Init /\ [][NextView]_vars

\* One apply call after another under fair scheduling.  Time passes while the
\* waiter waits; a call is made only while the clock of the model can still
\* reach the end of the longest countdown.
MaxTimerMs == CHOOSE m \in TimerMs : \A n \in TimerMs : n <= m
ClockRoom == mono + MaxTimerMs + MonoStep - 1 <= MaxMono

TimePasses ==
    \/ apply_pc = "wait" /\ Tick
    \/ apply_pc = "wait" /\ HourTick
\* the thread that runs apply_to_listings
CallerStep ==
    \/ ApplyTimer(TimerResponses)
    \/ ApplyWait
    \/ ApplyCheckStop
    \/ \E i \in Tasks : Collect(i)
    \/ ApplyFinish
\* the threads of the pool; every request is answered or fails
WorkerStep ==
    \/ \E i \in Tasks : TaskStart(i)
    \/ \E i \in Tasks : TaskGet(i, FewPages \cup {NoPage})
    \/ \E i \in Tasks : TaskPost(i, FewSubmitResponses \cup {NoSubmit})

NextLive ==
    \/ TimePasses
    \/ BotNext
    \/ ClockRoom /\ ApplyCall(FewBatches)
    \/ CallerStep
    \/ WorkerStep

SpecLive ==
    /\ Init
    /\ [][NextLive]_vars
    /\ WF_vars(TimePasses)
    /\ WF_vars(CallerStep)
    /\ WF_vars(WorkerStep)

----------------------------------------------------------------------------
(* Properties of apply_to_listings *)

HasPhrase(res) == Processed \in res.text \/ AlreadyApplied \in res.text
Successes == {i \in Tasks : task_result[i]}
AllTasksDone == \A i \in Tasks : task_pc[i] = "done"
\* the session.get or the session.post of task i raised
GetRaised(i) == task_pc[i] = "done" /\ n_get[i] = 1 /\ page_res[i] = NoPage
PostRaised(i) == task_pc[i] = "done" /\ n_post[i] = 1 /\ submit_res[i] = NoSubmit
\* the run reached line 247
Finished == apply_pc = "returned" /\ ~finished_msg.is_none

\* C1: a call made while is_logged_in is false returns at once: no timer GET, no
\* application-page GET, no POST, no task, and the waiter is never entered.
C1_NotLoggedInFailsFast ==
    (apply_pc # "idle" /\ ~auth_at_call) =>
        /\ apply_pc = "returned"
        /\ ret = Returned(None)
        /\ timer_gets = 0
        /\ wait_mode = "none"
        /\ ~slept
        /\ Tasks = {}
        /\ finished_msg = None

C1_Witness ==
    /\ apply_pc = "returned"
    /\ ~auth_at_call
    /\ listing_ids = <<"a", "b">>

\* C2: a POST is issued for a listing only if its fetched page held the command
\* button inside a form and the form's inputs include the anti-forgery token;
\* a listing whose page lacks the form or the token ends as a failure, with one
\* failure message and no POST.
C2_PostRequiresFormAndToken ==
    \A i \in Tasks :
        /\ n_post[i] > 0 =>
            /\ page_res[i].button /\ page_res[i].form
            /\ TokenField \in page_res[i].inputs
        /\ (task_pc[i] \in {"post", "done"} /\ page_res[i] # NoPage
                /\ ~(page_res[i].button /\ page_res[i].form
                     /\ TokenField \in page_res[i].inputs)) =>
            /\ task_pc[i] = "done"
            /\ ~task_result[i]
            /\ n_post[i] = 0
            /\ outcome_msg[i] = 1

C2_Witness ==
    \E i, j \in Tasks :
        /\ n_post[i] = 1
        /\ task_pc[j] = "done" /\ n_post[j] = 0
        /\ page_res[j].form /\ TokenField \notin page_res[j].inputs

\* C3: a finished submission is a success exactly when a POST response was
\* received whose body holds one of the two confirmation phrases, whatever the
\* status of the GET and of the POST.
C3_SuccessIffPhrase ==
    \A i \in Tasks :
        task_pc[i] = "done" =>
            (task_result[i] <=> (n_post[i] = 1 /\ HasPhrase(submit_res[i])))

C3_Witness ==
    \E i, j \in Tasks :
        /\ task_pc[i] = "done" /\ submit_res[i].status = 200 /\ ~task_result[i]
        /\ n_post[i] = 1 /\ page_res[i].status = 200
        /\ task_pc[j] = "done" /\ submit_res[j].status = 500 /\ task_result[j]
        /\ page_res[j].status = 500

\* C4: an exception while handling one listing never leaves its task: no future
\* holds an exception and the call does not unwind; in a finished run every
\* listing was attempted, the one that raised is a reported failure, and the
\* logged count is the number of listings classified as success.
C4_ExceptionIsolated ==
    /\ apply_pc \notin {"unwinding", "raised"}
    /\ \A i \in Tasks : ~task_raised[i]
    /\ \A i \in Tasks :
        (GetRaised(i) \/ PostRaised(i)) => (~task_result[i] /\ outcome_msg[i] = 1)
    /\ Finished =>
        /\ Tasks = 1 .. Len(listing_ids)
        /\ \A i \in Tasks : task_pc[i] = "done" /\ n_get[i] = 1
        /\ \A i \in Tasks :
            ~(GetRaised(i) \/ PostRaised(i)) =>
                (task_result[i] <=> (n_post[i] = 1 /\ HasPhrase(submit_res[i])))
        /\ finished_msg.v = Cardinality(Successes)

C4_Witness ==
    /\ Finished
    /\ \E i, j \in Tasks :
        /\ GetRaised(i)
        /\ task_result[j]
    /\ finished_msg = Some(1)

C6_StopDuringWaitAborts ==
    stop_in_wait =>
        /\ stop_event
        /\ apply_pc \in {"wait", "check_stop", "returned"}
        /\ apply_pc = "wait" =>
            ~(IF wait_mode = "countdown" THEN ~stop_event /\ mono < end_time
              ELSE ~stop_event /\ hour < APPLICATION_HOUR)
        /\ Tasks = {}
        /\ finished_msg = None

C6_Witness ==
    /\ stop_in_wait
    /\ apply_pc = "returned"
    /\ wait_mode = "countdown"
    /\ slept
    /\ mono < end_time
    /\ listing_ids # <<>>

\* C7: when a task has started (an application-page GET can be issued), the
\* waiter is done: after a positive countdown the monotonic clock has reached
\* the time of the resolution plus the countdown; with no countdown the
\* wall-clock hour is at least APPLICATION_HOUR.
C7_NoRequestBeforeDeadline ==
    (\E i \in Tasks : task_pc[i] # "queued" \/ n_get[i] > 0) =>
        /\ (timer_resp.kind = "ok" /\ timer_resp.ms > 0) =>
                mono >= wait_start + timer_resp.ms
        /\ timer_resp.kind \in TimerFailKinds => hour >= APPLICATION_HOUR

C7_Witness ==
    /\ \E i \in Tasks : n_get[i] = 1
    /\ timer_resp.kind = "ok" /\ timer_resp.ms = 1000
    /\ slept

\* C8, as stated: after a non-positive remaining time the countdown is zero and
\* the call goes on to the submissions without waiting, whatever the hour.
C8_ZeroCountdownProceeds ==
    (timer_resp.kind = "ok" /\ timer_resp.ms <= 0) =>
        /\ remaining_seconds = Some(0)
        /\ ~slept

\* C9: a timer request that fails at transport level, returns an error status,
\* lacks the field or carries a non-numeric value makes the resolver return None
\* without raising, and the call waits in wall-clock mode: it leaves the waiter
\* only with hour >= APPLICATION_HOUR or with the stop signal set.
C9_TimerFailureFallsBack ==
    timer_resp.kind \in TimerFailKinds =>
        /\ apply_pc # "raised"
        /\ remaining_seconds = None
        /\ wait_mode = "wall"
        /\ apply_pc # "wait" => (hour >= APPLICATION_HOUR \/ stop_event)
        /\ Tasks # {} => hour >= APPLICATION_HOUR

C9_Witness ==
    /\ timer_resp.kind = "missing_field"
    /\ slept
    /\ \E i \in Tasks : n_get[i] = 1

----------------------------------------------------------------------------
(* Properties of discover_all_listings_with_categories *)

\* C10, as stated: when the search request fails (transport error, error
\* status, undecodable or wrongly shaped JSON) the call reports the error,
\* returns the three categories empty, issues no detail request and does not
\* raise.
C10_SearchFailureReturnsEmpty ==
    search_resp.kind \in SearchCaughtKinds \cup SearchShapeKinds =>
        /\ disc_pc = "returned"
        /\ disc_errors = 1
        /\ disc_ret = [returned |-> TRUE, value |-> EmptyCategories]
        /\ detail_posts = <<>>


\* the listings of the returned mapping, as <<key, position>>
Listed ==
    UNION {{<<k, i>> : i \in DOMAIN disc_ret.value[k]} : k \in DOMAIN disc_ret.value}
ListingAt(p) == disc_ret.value[p[1]][p[2]]
ReturnedAt(fid) == {p \in Listed : ListingAt(p).id = fid}
MetaOf(fid) == id_map[CHOOSE j \in DOMAIN id_map : id_map[j].fid = fid].meta
PublOf(fid) == IF detail_map[fid].is_none THEN None ELSE detail_map[fid].v.publstart
\* the call returned at line 436
Classified == disc_pc = "returned" /\ id_map # <<>>
\* the detail request of fid failed: requests.RequestException, or another
\* exception caught at line 388
DetailFailed(fid) == detail_out[fid].kind \in {"request_error", "raises"}
ZeroPrice(x) == x.num = 0
NotExcluded(p) == p[1] # "uitgesloten"

C12_SelectableImpliesOpenAndNotExcluded ==
    disc_pc = "returned" =>
        \A p \in Listed :
            ListingAt(p).is_selectable =>
                /\ \/ (~PublOf(ListingAt(p).id).is_none
                       /\ PublOf(ListingAt(p).id).v <= disc_now)
                   \/ disc_now >= APPLICATION_HOUR - 2
                /\ NotExcluded(p)

\* C13: a returned listing whose publish time is not after now has status LIVE,
\* and is selectable unless it sits in the excluded group.
C13_PublishedIsLive ==
    disc_pc = "returned" =>
        \A p \in Listed :
            (~PublOf(ListingAt(p).id).is_none
                    /\ PublOf(ListingAt(p).id).v <= disc_now) =>
                /\ ListingAt(p).status_text = <<"LIVE">>
                /\ NotExcluded(p) => ListingAt(p).is_selectable

C13_Witness ==
    /\ disc_pc = "returned"
    /\ disc_now < APPLICATION_HOUR
    /\ \E p \in Listed :
        /\ PublOf(ListingAt(p).id) = Some(disc_now)
        /\ ListingAt(p).status_text = <<"LIVE">>
        /\ ListingAt(p).is_selectable

\* C14: a mapping classified at an hour >= APPLICATION_HOUR holds no listing
\* outside the excluded group that is not LIVE and selectable, whatever its
\* publish time (in the future, missing or unparsable).
C14_LateDayOverride ==
    (disc_pc = "returned" /\ disc_now >= APPLICATION_HOUR) =>
        \A p \in Listed :
            NotExcluded(p) =>
                /\ ListingAt(p).status_text = <<"LIVE">>
                /\ ListingAt(p).is_selectable

C14_Witness ==
    /\ disc_pc = "returned"
    /\ disc_now >= APPLICATION_HOUR
    /\ \E p, q \in Listed :
        /\ NotExcluded(p) /\ NotExcluded(q)
        /\ PublOf(ListingAt(p).id) = None
        /\ detail_out[ListingAt(p).id].kind = "ok"
        /\ PublOf(ListingAt(q).id) = Some(APPLICATION_HOUR + HoursPerDay)
        /\ ListingAt(q).status_text = <<"LIVE">>

\* C15: every list of the returned mapping is in non-decreasing order of
\* price_float.
C15_SortedByPrice ==
    disc_pc = "returned" =>
        \A k \in DOMAIN disc_ret.value :
            \A i, j \in DOMAIN disc_ret.value[k] :
                i < j => PriceLeq(disc_ret.value[k][i].price_float,
                                  disc_ret.value[k][j].price_float)

C15_Witness ==
    /\ disc_pc = "returned"
    /\ \E k \in DOMAIN disc_ret.value :
        /\ Len(disc_ret.value[k]) = 2
        /\ disc_ret.value[k][1].id = "b"
        /\ disc_ret.value[k][2].id = "a"
        /\ ~PriceLeq(disc_ret.value[k][2].price_float, disc_ret.value[k][1].price_float)

\* C16: a call that is given the same search answer, the same detail for every
\* listing and the same now as the call before returns the same mapping, lists in
\* the same order, whatever order the detail fetches completed in.
C16_SameInputsSameResult ==
    (/\ Classified
     /\ prev_run.known
     /\ prev_run.search = search_resp
     /\ prev_run.details = detail_map
     /\ prev_run.now = disc_now) =>
        prev_run.value = disc_ret.value

C16_Witness ==
    /\ Classified
    /\ prev_run.known
    /\ prev_run.search = search_resp
    /\ prev_run.details = detail_map
    /\ prev_run.now = disc_now
    /\ prev_run.order # detail_order
    /\ Len(disc_ret.value.voorrang) = 2
    /\ PriceLeq(disc_ret.value.voorrang[1].price_float,
                disc_ret.value.voorrang[2].price_float)
    /\ PriceLeq(disc_ret.value.voorrang[2].price_float,
                disc_ret.value.voorrang[1].price_float)

----------------------------------------------------------------------------
(* Properties of _parse_price *)

\* what is left of a text once every character that is neither a digit nor a
\* comma is removed
Kept(t) == SelectSeq(t, IsPriceChar)
IsComma(c) == c = ","
Commas(k) == Len(SelectSeq(k, IsComma))
\* k names a decimal: it has a digit and at most one comma
NamesDecimal(k) == SelectSeq(k, IsDigit) # <<>> /\ Commas(k) <= 1
CommaAt(k) == IF Commas(k) = 0 THEN Len(k) + 1 ELSE CHOOSE i \in DOMAIN k : k[i] = ","
\* the decimal k names when the comma is read as the decimal point
Reading(k) ==
    LET frac == SubSeq(k, CommaAt(k) + 1, Len(k))
    IN  [num |-> DigitsValue(SubSeq(k, 1, CommaAt(k) - 1)) * PowerOfTen(Len(frac))
                 + DigitsValue(frac),
         den |-> PowerOfTen(Len(frac))]
SameNumber(a, b) == a.num * b.den = b.num * a.den

\* C17, as stated: for every price text _parse_price returns a number: 0.0 for
\* an empty or missing text, otherwise the decimal that is left when every
\* character that is neither a digit nor a comma is removed and the comma is
\* read as the decimal point ('E 1.234,56' gives 1234.56, '0,00' gives 0.0).
C17_ParsePriceReturnsDecimal ==
    price_res.called =>
        /\ ~price_res.raised
        /\ (price_in.is_none \/ price_in.v = <<>>) => price_res.num = 0
        /\ (~price_in.is_none /\ NamesDecimal(Kept(price_in.v))) =>
                SameNumber(price_res, Reading(Kept(price_in.v)))
        /\ price_in = Some(<<"E", " ", "1", ".", "2", "3", "4", ",", "5", "6">>) =>
                SameNumber(price_res, [num |-> 123456, den |-> 100])
        /\ price_in = Some(<<"0", ",", "0", "0">>) => price_res.num = 0

----------------------------------------------------------------------------
(* Properties of the session *)

\* C18, as stated: no request is issued by an operation that was invoked while
\* is_logged_in was false: not by apply_to_listings (timer GET, page GET, POST),
\* not by a detail fetch.
C18_NoRequestWhenLoggedOut ==
    /\ (timer_gets > 0 \/ \E i \in Tasks : n_get[i] > 0 \/ n_post[i] > 0) => auth_at_call
    /\ \A lid \in DOMAIN detail_posts : detail_out[lid].auth

\* the browser steps of the login call all succeeded
StepsSucceeded == login_run.fails_at \notin BrowserSteps \cup {"no_browser", "not_run"}
Copied(jar) == \A n \in DOMAIN jar : n \in DOMAIN session_cookies /\ session_cookies[n] = jar[n]
LoginReturns == login_ret' # login_ret /\ login_ret'.returned

\* C19, as stated: login returns (True, session) exactly when every browser
\* step succeeded (username field, credentials, submit, logout marker), and
\* (False, None) otherwise.
C19_TrueIffStepsSucceeded ==
    login_ret.returned =>
        /\ login_ret.ok <=> StepsSucceeded
        /\ login_ret.session <=> login_ret.ok

\* C19, amended: login returns (True, session) exactly when every browser step
\* succeeded and the cookies of the browser were read; the session then holds
\* every cookie of the browser, the four headers are set and is_logged_in is
\* true.  When a step or the reading of the cookies raises it returns
\* (False, None) with is_logged_in false.  Without a browser it returns
\* (False, None) and changes neither the session nor is_logged_in.
C19_LoginContract ==
    /\ [](login_ret.returned =>
            /\ login_ret.ok <=> login_run.fails_at = "none"
            /\ login_ret.session <=> login_ret.ok
            /\ login_ret.ok => (Copied(login_run.jar) /\ LoginHeaders \subseteq session_headers))
    /\ [][LoginReturns =>
            /\ login_ret'.ok => is_logged_in'
            /\ (~login_ret'.ok /\ login_run'.fails_at # "no_browser") => ~is_logged_in'
            /\ login_run'.fails_at = "no_browser" =>
                    (~login_ret'.ok
                     /\ UNCHANGED <<session_cookies, session_headers, is_logged_in>>)]_vars

C19_Witness ==
    /\ login_ret.returned /\ login_ret.ok
    /\ login_run.jar = [n \in CookieNames |-> "v2"]
    /\ session_cookies = login_run.jar
    /\ is_logged_in

\* C20: a start call made while a browser is running leaves the driver as it
\* is and creates no browser, so this bot never has more than one browser that
\* it started and did not quit.
C20_StartTwiceIsNoOp ==
    /\ [](browsers <= 1 /\ (driver => browsers = 1))
    /\ [][driver => (browsers' <= browsers /\ (browsers' = browsers => driver'))]_vars

C20_Witness ==
    /\ start_warned
    /\ driver
    /\ browsers = 1
    /\ quit_pc = "idle" /\ ~stop_event

----------------------------------------------------------------------------
(* Properties of the worker pools *)

\* C21: within one batch, the submissions of one apply_to_listings call or the
\* detail fetches of one discovery call, at most 10 tasks are executing at any
\* moment, however many listing ids the batch holds.
C21_AtMostTenExecuting ==
    /\ Cardinality(Running) <= max_workers
    /\ Cardinality(DetailRunning) <= max_workers

C21_Witness ==
    /\ Len(listing_ids) > max_workers
    /\ Cardinality(Running) = max_workers
    /\ \E i \in Tasks : task_pc[i] = "queued"
    /\ Len(id_map) > max_workers
    /\ Cardinality(DetailRunning) = max_workers
    /\ \E i \in DetailTasks : detail_pc[i] = "queued"

\* C22: in a run that reaches the submission phase each entry of listing_ids
\* is attempted exactly once: there is one task per entry, it issues exactly one
\* GET of the application page and at most one POST, and a failed attempt is
\* never made again.
C22_AttemptedExactlyOnce ==
    /\ apply_pc \in {"collect", "unwinding"} \/ Finished => Tasks = 1 .. Len(listing_ids)
    /\ \A i \in Tasks :
        /\ n_get[i] <= 1
        /\ n_post[i] <= n_get[i]
        /\ task_pc[i] \in {"post", "done"} => n_get[i] = 1
        /\ (task_pc[i] = "done" /\ ~task_result[i]) => n_get[i] + n_post[i] <= 2

C22_Witness ==
    /\ Finished
    /\ \E i, j \in Tasks :
        /\ GetRaised(i) /\ n_get[i] = 1 /\ n_post[i] = 0
        /\ ~task_result[j] /\ n_get[j] = 1 /\ n_post[j] = 1

\* C23, as stated: when apply_to_listings returns, no task or thread that it
\* started is still running: every submission task has completed and nothing
\* started during the run is left detached.
C23_NothingLeftRunning ==
    apply_pc \in {"returned", "raised"} =>
        /\ AllTasksDone
        /\ apply_reports = 0

\* C24, as stated: the submission loop polls the stop signal like the waiter
\* does: once the stop signal has been set, no submission task that has not yet
\* started is started.
C24_NoStartAfterStop ==
    [][stop_event =>
        \A i \in Tasks :
            (task_pc[i] = "queued" /\ i \in DOMAIN task_pc') => task_pc'[i] = "queued"]_vars

\* C25: for every listing attempted in the submission phase exactly one outcome
\* message (success, or a failure naming the listing) is put on the status queue
\* by the listing's task, and it is there before apply_to_listings returns: no
\* attempt ends without a reported outcome.
C25_OneOutcomePerAttempt ==
    /\ \A i \in Tasks :
        /\ outcome_msg[i] <= 1
        /\ task_pc[i] = "done" <=> outcome_msg[i] = 1
    /\ Finished =>
        /\ Tasks = 1 .. Len(listing_ids)
        /\ \A i \in Tasks : outcome_msg[i] = 1

C25_Witness ==
    /\ Finished
    /\ \E i, j \in Tasks :
        /\ PostRaised(i) /\ outcome_msg[i] = 1
        /\ page_res[j] # NoPage /\ ~page_res[j].button /\ outcome_msg[j] = 1

----------------------------------------------------------------------------
(* Properties of discover_all_listings_with_categories, continued *)

\* C26, as stated: a per-listing failure is caught at the item boundary: once
\* the search answer is a list of results, no content of one listing's search
\* result or detail (a price text without digit, a null media list) makes the
\* call raise or keeps the other listings from being returned.
C26_ItemFailureContained ==
    search_resp.kind = "ok" =>
        /\ disc_pc # "raised"
        /\ disc_pc = "returned" =>
                \A fid \in IdsOf(id_map) : detail_out[fid].kind = "ok" => ReturnedAt(fid) # {}

\* the identifiers the search results carry
ResultIds == {str_id(search_resp.results[i]) : i \in DOMAIN search_resp.results}

\* C27: in one discovery call the listing identifiers are de-duplicated: each
\* distinct identifier of the search results gets at most one detail request
\* and appears at most once in the returned mapping; when the search returns
\* zero results the call returns the three empty categories, without any detail
\* request and without reporting an error.
C27_Deduplicated ==
    /\ DOMAIN detail_posts \subseteq ResultIds
    /\ \A lid \in DOMAIN detail_posts : detail_posts[lid] <= 1
    /\ disc_pc = "returned" =>
        \A p, q \in Listed : ListingAt(p).id = ListingAt(q).id => p = q
    /\ (search_resp.kind \in SearchEmptyKinds
            \/ (search_resp.kind = "ok" /\ search_resp.results = <<>>)) =>
        /\ disc_pc = "returned"
        /\ disc_ret = [returned |-> TRUE, value |-> EmptyCategories]
        /\ detail_posts = <<>>
        /\ disc_errors = 0

C27_Witness ==
    /\ disc_pc = "returned"
    /\ Len(search_resp.results) = 2
    /\ ResultIds = {"a"}
    /\ detail_posts = [lid \in {"a"} |-> 1]
    /\ Cardinality(Listed) = 1

----------------------------------------------------------------------------
(* Termination of apply_to_listings *)

InCall == apply_pc \in {"timer", "wait", "check_stop", "collect", "unwinding"}
\* control has left apply_to_listings
CallOver == apply_pc \in {"returned", "raised"}
Aborted == apply_pc = "returned" /\ finished_msg.is_none /\ Tasks = {}
WaitIsOver ==
    \/ stop_event
    \/ wait_mode = "countdown" /\ mono >= end_time
    \/ wait_mode = "wall" /\ hour >= APPLICATION_HOUR

C30_PartitionOverThreeCategories ==
    disc_pc = "returned" =>
        /\ DOMAIN disc_ret.value = {"voorrang", "geenvoorrang", "uitgesloten"}
        /\ \A p, q \in Listed : ListingAt(p).id = ListingAt(q).id => p = q
        /\ \A p \in Listed : ListingAt(p).category = p[1]

\* the ids that the results of the search carry
HasNoId(r) == r.FrontendAdvertentieId = Missing /\ r.AdvertentieId = Missing
CarriedIds ==
    {search_resp.results[i].FrontendAdvertentieId : i \in DOMAIN search_resp.results}
    \cup {search_resp.results[i].AdvertentieId : i \in DOMAIN search_resp.results}

\* C31: a search result that carries neither a FrontendAdvertentieId nor an
\* AdvertentieId is skipped: every detail request is for an id that a result
\* carries, and so is every listing of the returned mapping.
C31_IdlessResultSkipped ==
    (search_resp.kind = "ok" /\ \E i \in DOMAIN search_resp.results :
                                    HasNoId(search_resp.results[i])) =>
        /\ DOMAIN detail_posts \subseteq CarriedIds \ {Missing}
        /\ disc_pc = "returned" =>
              \A p \in Listed : ListingAt(p).id \in CarriedIds \ {Missing}

\* C32: the stop signal set by quit is never cleared, and a call of
\* apply_to_listings that begins after a quit has completed issues no GET of an
\* application page and no POST, whatever start_headless_browser, login and
\* apply calls come after the quit.
C32_ShutdownIsPermanent ==
    /\ [][stop_event => stop_event']_vars
    /\ [](stop_at_call =>
            /\ \A i \in DOMAIN n_get : n_get[i] = 0
            /\ \A i \in DOMAIN n_post : n_post[i] = 0
            /\ \A i \in Tasks : task_pc[i] = "queued")

\* after a quit the browser was started again, a login succeeded, and a call
\* with a listing, begun logged in, has returned
C32_Witness ==
    /\ stop_at_call
    /\ auth_at_call
    /\ listing_ids # <<>>
    /\ apply_pc = "returned"
    /\ timer_gets = 1

\* C33: once quit has completed, is_logged_in is false and stays false unless
\* login is called after that completion, also when a call of login was in
\* progress while quit ran.
C33_QuitInvalidatesSession ==
    since_quit => ~is_logged_in

\* C34: in the window at most one apply run is in progress: from the start of
\* an apply thread until run_apply_wrapper ends, the Apply button is DISABLED
\* and no second apply thread is started, also when a discovery completes
\* meanwhile.
C34_OneApplyRun ==
    /\ apply_workers <= 1
    /\ apply_workers > 0 => ~apply_button

\* C35: the window hands to apply_to_listings only ids of listings that are
\* selectable in the discovery result on display: whenever start_apply starts
\* a thread, every id it passes is the id of a widget whose listing has
\* is_selectable true.
C35_OnlySelectableApplied ==
    [][Len(apply_args') > Len(apply_args) =>
         \A k \in DOMAIN apply_args'[Len(apply_args')] :
            \E i \in DOMAIN listing_widgets :
                /\ listing_widgets[i].id = apply_args'[Len(apply_args')][k]
                /\ listing_widgets[i].is_selectable]_vars

====
